---- MODULE Spec2Model ----
(***************************************************************************)
(* A model of the nimbus routing core: the radix tree (tree.go), the       *)
(* copy-on-write routing table and the lock-free dispatcher (router.go).   *)
(*                                                                         *)
(* Go strings are sequences of one-character strings, so that prefixes,    *)
(* segments and slashes are computed as the code computes them.  Pointers  *)
(* are indices into heaps (nodes, emaps, routes, tables); 0 is nil.        *)
(* A node's children slice is held by value: the router inserts in place   *)
(* only into a tree it has just made (newTree), so no in-place append ever *)
(* writes into a backing array that a published tree shares.               *)
(*                                                                         *)
(* The specifications: TreeSpec (the tree alone), Spec and MatchSpec (one  *)
(* goroutine registering and dispatching), ConcSpec / FairConcSpec         *)
(* (writers and a dispatcher interleaved step by step), ExecSpec           *)
(* (executeHandler), BurstSpec, LimiterSpec and MwSpec (the rate limiter,  *)
(* called in turn, by goroutines at once, and behind its middleware),      *)
(* LifeSpec / FairLifeSpec and CloseSpec (Shutdown, Close and the reaper), *)
(* PoolSpec (the pooled Context and the Timeout middleware), ResetSpec     *)
(* (Release of Contexts with maps of every size), GroupSpec (route groups  *)
(* and their middleware slice), GenSpec (the writes with Use() of nothing  *)
(* and RegisterCleanup), ShapeSpec (the tree on patterns that share first  *)
(* bytes), CopySpec (the tree grown by both kinds of insert), HideSpec     *)
(* and DupSpec (registrations that overlap or repeat), SweepSpec (allow    *)
(* calls and reaper sweeps interleaved), RetrySpec (the same at one        *)
(* instant, with fair scheduling of the goroutines) and RefillSpec (allow  *)
(* on a clock of nanoseconds, with the refill computed in float64).        *)
(***************************************************************************)
EXTENDS Integers, Sequences, FiniteSets, TLC

VARIABLES
    nodes,      \* heap of radix-tree nodes (tree.go node), index = pointer
    emaps,      \* heap of per-method exact-match maps (path -> route)
    routes,     \* heap of Route objects, index = pointer
    tables,     \* heap of routingTable objects, index = pointer
    cur,        \* Router.table: the atomic pointer to the current table
    mu,         \* Router.mu: 0 when free, else the writer holding it
    writes,     \* number of registration calls started so far
    used,       \* every middleware passed to Router.Use so far, in call order
    wpc,        \* position of each writer inside its call
    wop,        \* the call each writer is executing (operation and arguments)
    wnew,       \* the table a writer has constructed and is about to store
    rpc,        \* position of each dispatcher inside ServeHTTP
    rreq,       \* the request each dispatcher is serving
    rtab,       \* the table pointer each dispatcher loaded
    rloads,     \* how many times each dispatcher loaded Router.table
    resp,       \* the last completed dispatch (one per dispatcher in ConcSpec)
    treeRoot,   \* tree.root of the tree under test (tree-level operations)
    inserted,   \* patterns inserted into that tree; index = the Route inserted
    found,      \* result of the last tree.search since the tree last changed
    outcome,    \* result of the last executeHandler
    clock,      \* time.Now(), in whole seconds
    limiter,    \* the RateLimiter's rate and capacity
    buckets,    \* RateLimiter.buckets: key -> bucket (tokens, lastSeen)
    apc,        \* each goroutine's position inside RateLimiter.allow, and its locals
    alog,       \* the allow calls that have returned, in order of return
    mwcall,     \* the last call of the rate-limiting middleware's handler
    cleanupFuncs, \* Router.cleanupFuncs: the registered cleanups, in order
    rls,        \* every RateLimiter made: done, closeOnce, buckets and its reaper
    th,         \* each goroutine's position inside Shutdown or Close
    life,       \* what has happened so far: calls made, Shutdowns returned, ...
    lastAllow,  \* the last allow call on one of those limiters
    ctxs,       \* every Context contextPool.New has made, index = pointer
    pool,       \* contextPool: the Contexts put back and not taken since
    srv,        \* each ServeHTTP goroutine: its position, Context and request
    bg,         \* the handler goroutines the Timeout middleware has started
    served,     \* number of requests that have entered ServeHTTP
    misuse,     \* a handler goroutine has used a Context after its release
    grp         \* the route Group: its prefix, its middlewares slice, the
                \* backing arrays of slices, and the routes registered through it

vars == <<nodes, emaps, routes, tables, cur, mu, writes, used, wpc, wop, wnew,
          rpc, rreq, rtab, rloads, resp, treeRoot, inserted, found, outcome,
          clock, limiter, buckets, apc, alog, mwcall,
          cleanupFuncs, rls, th, life, lastAllow,
          ctxs, pool, srv, bg, served, misuse, grp>>

routerVars == <<emaps, routes, tables, cur, mu, writes, used, wpc, wop, wnew,
                rpc, rreq, rtab, rloads, resp>>
treeVars == <<treeRoot, inserted, found>>
limiterVars == <<clock, limiter, buckets, apc, alog>>
mwVars == <<mwcall>>
lifeVars == <<cleanupFuncs, rls, th, life, lastAllow>>
poolVars == <<ctxs, pool, srv, bg, served, misuse>>
restVars == <<grp>>
afterMwVars == <<lifeVars, poolVars, restVars>>
laterVars == <<mwVars, afterMwVars>>
moreVars == <<limiterVars, laterVars>>

\* no rate limiter exists
LimiterIdle ==
    /\ clock = 0
    /\ limiter = <<>>
    /\ buckets = <<>>
    /\ apc = <<>>
    /\ alog = <<>>

NoMwCall == [done |-> FALSE]

\* no middleware has been called
MwIdle == mwcall = NoMwCall

\* no cleanup is registered and no limiter is attached to the router
LifeIdle ==
    /\ cleanupFuncs = <<>>
    /\ rls = <<>>
    /\ th = <<>>
    /\ life = <<>>
    /\ lastAllow = <<>>

\* a nil slice
NilSlice == [arr |-> 0, len |-> 0, cap |-> 0]

\* no Group has been made
NoGroup ==
    [made |-> FALSE, prefix |-> <<>>, middlewares |-> NilSlice, arrays |-> <<>>,
     regs |-> <<>>]

RestIdle == grp = NoGroup

\* no request has been served: the Context pool is empty
AfterLifeIdle ==
    /\ RestIdle
    /\ ctxs = <<>>
    /\ pool = {}
    /\ srv = <<>>
    /\ bg = {}
    /\ served = 0
    /\ misuse = FALSE

AfterMwIdle == LifeIdle /\ AfterLifeIdle

LaterIdle == MwIdle /\ AfterMwIdle

MoreIdle == LimiterIdle /\ LaterIdle

-----------------------------------------------------------------------------
(* Bounds *)

MaxInserts == 3
MaxWrites == 3

-----------------------------------------------------------------------------
(* Strings *)

Slash == "/"
Colon == ":"
Star == "*"

HasPrefix(s, p) == Len(p) <= Len(s) /\ SubSeq(s, 1, Len(p)) = p

TrimPrefix(s, p) == IF HasPrefix(s, p) THEN SubSeq(s, Len(p) + 1, Len(s)) ELSE s

\* strings.IndexByte, as a 1-based position; 0 when the byte does not occur
IndexByte(s, c) ==
    IF \E i \in 1..Len(s) : s[i] = c
    THEN CHOOSE i \in 1..Len(s) : s[i] = c /\ \A j \in 1..(i - 1) : s[j] # c
    ELSE 0

Min(a, b) == IF a < b THEN a ELSE b

longestCommonPrefix(a, b) ==
    LET max == Min(Len(a), Len(b))
        diff == {i \in 1..max : a[i] # b[i]}
    IN  IF diff = {} THEN max
        ELSE (CHOOSE i \in diff : \A j \in diff : i <= j) - 1

\* the segment that starts a path whose leading slash has been removed
SegmentOf(p) ==
    IF IndexByte(p, Slash) = 0 THEN p ELSE SubSeq(p, 1, IndexByte(p, Slash) - 1)

\* what follows that segment, leading slash included
RemainingOf(p) ==
    IF IndexByte(p, Slash) = 0 THEN <<>> ELSE SubSeq(p, IndexByte(p, Slash), Len(p))

\* tree.insert / tree.search path normalisation
NormalizeInsert(path) ==
    IF path = <<>> THEN <<Slash>>
    ELSE IF path[1] # Slash THEN <<Slash>> \o path ELSE path

NormalizeSearch(path) == IF path = <<>> THEN <<Slash>> ELSE path

-----------------------------------------------------------------------------
(* Radix tree nodes *)

Nil == 0

NodeStatic == "static"
NodeParam == "param"
NodeWildcard == "wildcard"

NoLabel == "\\0"

NewNode(t, l, p, k, r, ch, pc) ==
    [nType |-> t, label |-> l, prefix |-> p, paramKey |-> k,
     route |-> r, children |-> ch, paramChild |-> pc]

\* newTree: a heap holding the fresh root, which is node Len(h) + 1
newTree(h) == Append(h, NewNode(NodeStatic, NoLabel, <<>>, <<>>, Nil, <<>>, Nil))

segTypeOf(segment) ==
    IF Len(segment) > 0 /\ segment[1] = Colon THEN NodeParam
    ELSE IF Len(segment) > 0 /\ segment[1] = Star THEN NodeWildcard
    ELSE NodeStatic

\* fault: only a child whose whole prefix is the segment is taken as the match
MatchedIdxExact(h, n, segment) ==
    LET hit == {i \in 1..Len(h[n].children) :
                  /\ h[h[n].children[i]].nType = NodeStatic
                  /\ h[h[n].children[i]].prefix = segment}
    IN  IF hit = {} THEN 0 ELSE CHOOSE i \in hit : \A j \in hit : i <= j

\* index of the first static child sharing a non-empty prefix with the segment
MatchedIdx(h, n, segment) ==
    LET hit == {i \in 1..Len(h[n].children) :
                  /\ h[h[n].children[i]].nType = NodeStatic
                  /\ longestCommonPrefix(segment, h[h[n].children[i]].prefix) > 0}
    IN  IF hit = {} THEN 0 ELSE CHOOSE i \in hit : \A j \in hit : i <= j

RECURSIVE nodeInsert(_, _, _, _)
\* node.insert: mutates the nodes on the insertion path in place
nodeInsert(h, n, path, route) ==
    IF path = <<Slash>> THEN [h EXCEPT ![n].route = route]
    ELSE
    LET p == TrimPrefix(path, <<Slash>>)
        segment == SegmentOf(p)
        remaining == RemainingOf(p)
    IN  IF segTypeOf(segment) = NodeParam
        THEN LET h1 == IF h[n].paramChild = Nil
                       THEN [Append(h, NewNode(NodeParam, NoLabel, segment,
                                               Tail(segment), Nil, <<>>, Nil))
                               EXCEPT ![n].paramChild = Len(h) + 1]
                       ELSE h
                 pc == h1[n].paramChild
             IN  IF remaining = <<>> THEN [h1 EXCEPT ![pc].route = route]
                 ELSE nodeInsert(h1, pc, remaining, route)
        ELSE
        LET idx == MatchedIdx(h, n, segment)
        IN  IF idx # 0
            THEN LET child == h[n].children[idx]
                     commonLen == longestCommonPrefix(segment, h[child].prefix)
                 IN  IF commonLen = Len(h[child].prefix)
                     THEN IF commonLen = Len(segment)
                          THEN IF remaining = <<>>
                               THEN [h EXCEPT ![child].route = route]
                               ELSE nodeInsert(h, child, remaining, route)
                          ELSE nodeInsert(h, child,
                                 <<Slash>> \o SubSeq(segment, commonLen + 1, Len(segment))
                                           \o remaining, route)
                     ELSE
                     \* split the existing child at the common prefix
                     LET split == Len(h) + 1
                         rest == SubSeq(h[child].prefix, commonLen + 1, Len(h[child].prefix))
                         h1 == Append(h, NewNode(NodeStatic, h[child].label,
                                                 SubSeq(h[child].prefix, 1, commonLen),
                                                 <<>>, Nil, <<child>>, Nil))
                         h2 == [h1 EXCEPT ![child].prefix = rest,
                                          ![child].label = rest[1],
                                          ![n].children[idx] = split]
                     IN  IF commonLen = Len(segment)
                         THEN IF remaining = <<>>
                              THEN [h2 EXCEPT ![split].route = route]
                              ELSE nodeInsert(h2, split, remaining, route)
                         ELSE nodeInsert(h2, split,
                                <<Slash>> \o SubSeq(segment, commonLen + 1, Len(segment))
                                          \o remaining, route)
            ELSE
            \* no matching child: create one and append it
            LET newChild == Len(h) + 1
                h1 == Append(h, NewNode(NodeStatic, segment[1], segment,
                                        <<>>, Nil, <<>>, Nil))
                h2 == IF remaining = <<>> THEN [h1 EXCEPT ![newChild].route = route]
                      ELSE nodeInsert(h1, newChild, remaining, route)
            IN  [h2 EXCEPT ![n].children = Append(h2[n].children, newChild)]

\* tree.insert
treeInsert(h, root, path, route) == nodeInsert(h, root, NormalizeInsert(path), route)

\* fault: the copy of a node loses the node's param child
CopyNodeNoParam(h, n, r, ch, pc) ==
    NewNode(h[n].nType, h[n].label, h[n].prefix, h[n].paramKey, r, ch, Nil)

\* a copy of node n of heap h with the given route, children and param child
CopyNode(h, n, r, ch, pc) ==
    NewNode(h[n].nType, h[n].label, h[n].prefix, h[n].paramKey, r, ch, pc)

RECURSIVE nodeInsertWithCopy(_, _, _, _)
\* node.insertWithCopy: returns the heap with the copied path appended and the
\* pointer to the copy of n; no existing node is written
nodeInsertWithCopy(h, n, path, route) ==
    IF path = <<Slash>>
    THEN [h |-> Append(h, CopyNode(h, n, route, h[n].children, h[n].paramChild)),
          id |-> Len(h) + 1]
    ELSE
    LET p == TrimPrefix(path, <<Slash>>)
        segment == SegmentOf(p)
        remaining == RemainingOf(p)
    IN  IF segTypeOf(segment) = NodeParam
        THEN LET sub ==
                   IF h[n].paramChild = Nil
                   THEN LET fresh == NewNode(NodeParam, NoLabel, segment,
                                             Tail(segment), Nil, <<>>, Nil)
                        IN  IF remaining = <<>>
                            THEN [h |-> Append(h, [fresh EXCEPT !.route = route]),
                                  id |-> Len(h) + 1]
                            ELSE nodeInsertWithCopy(Append(h, fresh), Len(h) + 1,
                                                    remaining, route)
                   ELSE IF remaining = <<>>
                        THEN [h |-> Append(h, CopyNode(h, h[n].paramChild, route,
                                             h[h[n].paramChild].children,
                                             h[h[n].paramChild].paramChild)),
                              id |-> Len(h) + 1]
                        ELSE nodeInsertWithCopy(h, h[n].paramChild, remaining, route)
             IN  [h |-> Append(sub.h, CopyNode(h, n, h[n].route, h[n].children, sub.id)),
                  id |-> Len(sub.h) + 1]
        ELSE
        LET idx == MatchedIdx(h, n, segment)
            sub ==
              IF idx # 0
              THEN LET child == h[n].children[idx]
                       commonLen == longestCommonPrefix(segment, h[child].prefix)
                       suffix == <<Slash>> \o SubSeq(segment, commonLen + 1, Len(segment))
                                           \o remaining
                   IN  IF commonLen = Len(h[child].prefix)
                       THEN IF commonLen = Len(segment)
                            THEN IF remaining = <<>>
                                 THEN [h |-> Append(h, CopyNode(h, child, route,
                                                h[child].children, h[child].paramChild)),
                                       id |-> Len(h) + 1]
                                 ELSE nodeInsertWithCopy(h, child, remaining, route)
                            ELSE nodeInsertWithCopy(h, child, suffix, route)
                       ELSE
                       \* split: a new intermediate node and a demoted copy of the child
                       LET rest == SubSeq(h[child].prefix, commonLen + 1, Len(h[child].prefix))
                           updated == Len(h) + 1
                           split == Len(h) + 2
                           h1 == Append(h, [CopyNode(h, child, h[child].route,
                                                     h[child].children, h[child].paramChild)
                                              EXCEPT !.label = rest[1], !.prefix = rest])
                           h2 == Append(h1, NewNode(NodeStatic, h[child].label,
                                                    SubSeq(h[child].prefix, 1, commonLen),
                                                    <<>>, Nil, <<updated>>, Nil))
                       IN  IF commonLen = Len(segment)
                           THEN IF remaining = <<>>
                                THEN [h |-> [h2 EXCEPT ![split].route = route], id |-> split]
                                ELSE nodeInsertWithCopy(h2, split, remaining, route)
                           ELSE nodeInsertWithCopy(h2, split, suffix, route)
              ELSE
              LET fresh == NewNode(NodeStatic, segment[1], segment, <<>>, Nil, <<>>, Nil)
              IN  IF remaining = <<>>
                  THEN [h |-> Append(h, [fresh EXCEPT !.route = route]), id |-> Len(h) + 1]
                  ELSE nodeInsertWithCopy(Append(h, fresh), Len(h) + 1, remaining, route)
            newChildren ==
              IF idx # 0 THEN [h[n].children EXCEPT ![idx] = sub.id]
              ELSE Append(h[n].children, sub.id)
        IN  [h |-> Append(sub.h, CopyNode(h, n, h[n].route, newChildren, h[n].paramChild)),
             id |-> Len(sub.h) + 1]

RECURSIVE cloneNode(_, _), cloneKids(_, _, _, _)
\* copies of the subtrees of kids[i..], appended to heap h
cloneKids(h, kids, i, acc) ==
    IF i > Len(kids) THEN [h |-> h, ids |-> acc]
    ELSE cloneKids(cloneNode(h, kids[i]).h, kids, i + 1,
                   Append(acc, cloneNode(h, kids[i]).id))

\* a copy of the whole subtree of node n, appended to heap h
cloneNode(h, n) ==
    LET k == cloneKids(h, h[n].children, 1, <<>>)
        p == IF h[n].paramChild = Nil THEN [h |-> k.h, id |-> Nil]
             ELSE cloneNode(k.h, h[n].paramChild)
    IN  [h |-> Append(p.h, CopyNode(h, n, h[n].route, k.ids, p.id)),
         id |-> Len(p.h) + 1]

\* fault: the whole tree is copied and the insert made in place in the copy
treeCloneInsert(h, root, path, route) ==
    [h |-> treeInsert(cloneNode(h, root).h, cloneNode(h, root).id, path, route),
     id |-> cloneNode(h, root).id]

\* fault: the insert is made in place in the old tree, whose root is returned
treeInsertInPlace(h, root, path, route) ==
    [h |-> treeInsert(h, root, path, route), id |-> root]

\* tree.insertWithCopy
treeInsertWithCopy(h, root, path, route) ==
    nodeInsertWithCopy(h, root, NormalizeInsert(path), route)

-----------------------------------------------------------------------------
(* Search *)

\* a Go map[string]string; isNil distinguishes the nil map from an empty one
NilParams == [isNil |-> TRUE, kv |-> <<>>]

SetParam(params, k, v) ==
    [isNil |-> FALSE,
     kv |-> [x \in (DOMAIN params.kv) \cup {k} |-> IF x = k THEN v ELSE params.kv[x]]]

\* index of the first static child whose prefix is a prefix of the segment
SearchIdx(h, n, segment) ==
    LET hit == {i \in 1..Len(h[n].children) :
                  /\ h[h[n].children[i]].nType = NodeStatic
                  /\ HasPrefix(segment, h[h[n].children[i]].prefix)}
    IN  IF hit = {} THEN 0 ELSE CHOOSE i \in hit : \A j \in hit : i <= j

RECURSIVE nodeSearch(_, _, _, _)
\* node.search: the route found (Nil when none) and the params map as written
nodeSearch(h, n, path, params) ==
    IF path = <<Slash>> \/ path = <<>> THEN [route |-> h[n].route, params |-> params]
    ELSE
    LET p == TrimPrefix(path, <<Slash>>)
        segment == SegmentOf(p)
        remaining == RemainingOf(p)
        idx == SearchIdx(h, n, segment)
    IN  IF idx # 0
        THEN LET child == h[n].children[idx]
             IN  IF Len(segment) = Len(h[child].prefix)
                 THEN IF remaining = <<>>
                      THEN [route |-> h[child].route, params |-> params]
                      ELSE nodeSearch(h, child, remaining, params)
                 ELSE nodeSearch(h, child,
                        <<Slash>> \o SubSeq(segment, Len(h[child].prefix) + 1, Len(segment))
                                  \o remaining, params)
        ELSE IF h[n].paramChild # Nil
        THEN LET pc == h[n].paramChild
                 ps == SetParam(params, h[pc].paramKey, segment)
             IN  IF remaining = <<>> THEN [route |-> h[pc].route, params |-> ps]
                 ELSE nodeSearch(h, pc, remaining, ps)
        ELSE [route |-> Nil, params |-> params]

\* tree.search
treeSearch(h, root, path) ==
    LET r == nodeSearch(h, root, NormalizeSearch(path), NilParams)
    IN  IF r.route = Nil THEN [route |-> Nil, params |-> NilParams] ELSE r

RECURSIVE nodeCollect(_, _)
\* node.collectRoutes: this node's route, then the children's, then the param child's
nodeCollect(h, n) ==
    LET RECURSIVE kids(_)
        kids(i) == IF i > Len(h[n].children) THEN <<>>
                   ELSE nodeCollect(h, h[n].children[i]) \o kids(i + 1)
    IN  (IF h[n].route # Nil THEN <<h[n].route>> ELSE <<>>)
        \o kids(1)
        \o (IF h[n].paramChild # Nil THEN nodeCollect(h, h[n].paramChild) ELSE <<>>)

-----------------------------------------------------------------------------
(* Go maps: functions with a finite domain; a missing key reads as the zero value *)

EmptyMap == <<>>

MapGet(f, k) == IF k \in DOMAIN f THEN f[k] ELSE Nil

MapPut(f, k, v) == [x \in (DOMAIN f) \cup {k} |-> IF x = k THEN v ELSE f[x]]

MapDelete(f, k) == [x \in (DOMAIN f) \ {k} |-> f[x]]

-----------------------------------------------------------------------------
(* Routes, handlers and compiled chains *)

\* a Handler value is the list of what runs when it is called: the middleware
\* wrapped around it, outermost first, then the innermost handler
NilHandler == <<>>

DefaultNotFound == "defaultNotFound"

NewRoute(handler, middleware, method, pattern) ==
    [handler |-> handler, middlewares |-> middleware, method |-> method,
     pattern |-> pattern]

\* middleware(handler): the returned Handler runs the middleware around handler
Wrap(middleware, handler) == <<middleware>> \o handler

RECURSIVE WrapFrom(_, _, _)
\* for i := i; i >= 0; i-- { handler = middlewares[i](handler) }
WrapFrom(middlewares, i, handler) ==
    IF i < 1 THEN handler
    ELSE WrapFrom(middlewares, i - 1, Wrap(middlewares[i], handler))

\* fault: the global middleware is applied first, so that the route's own
\* middleware ends up outermost
buildChainRouteOutermost(route, globalMiddlewares) ==
    WrapFrom(route.middlewares, Len(route.middlewares),
             WrapFrom(globalMiddlewares, Len(globalMiddlewares), <<route.handler>>))

\* Router.buildChain: route middleware wrapped innermost, global outermost
buildChain(route, globalMiddlewares) ==
    WrapFrom(globalMiddlewares, Len(globalMiddlewares),
             WrapFrom(route.middlewares, Len(route.middlewares), <<route.handler>>))

buildNotFoundChain(notFound, globalMiddlewares) ==
    WrapFrom(globalMiddlewares, Len(globalMiddlewares), <<notFound>>)

isStaticRoute(path) == \A i \in 1..Len(path) : path[i] # Colon /\ path[i] # Star

-----------------------------------------------------------------------------
(* The routing table *)

MethodGET == "GET"
MethodPOST == "POST"
MethodPUT == "PUT"

\* the order in which the model ranges over the keys of a method-keyed map
MethodOrder == <<MethodGET, MethodPOST, MethodPUT>>

NewTable(exact, trees, middlewares, gen, nf, chains) ==
    [exactRoutes |-> exact, trees |-> trees, middlewares |-> middlewares,
     gen |-> gen, notFoundRoute |-> nf, chains |-> chains]

RECURSIVE CopyExactFrom(_, _, _, _)
\* copyExactRoutes, from the i-th method on: every inner map is copied into a
\* newly allocated map
CopyExactFrom(em, old, i, acc) ==
    IF i > Len(MethodOrder) THEN [emaps |-> em, exact |-> acc]
    ELSE IF MethodOrder[i] \in DOMAIN old
    THEN CopyExactFrom(Append(em, em[old[MethodOrder[i]]]), old, i + 1,
                       MapPut(acc, MethodOrder[i], Len(em) + 1))
    ELSE CopyExactFrom(em, old, i + 1, acc)

copyExactRoutes(em, old) == CopyExactFrom(em, old, 1, EmptyMap)

\* copyTrees: a new outer map holding the same tree pointers
copyTrees(old) == [m \in DOMAIN old |-> old[m]]

\* every Route stored in the static maps of a table
ExactRouteSet(em, exact) ==
    UNION {{em[exact[m]][p] : p \in DOMAIN em[exact[m]]} : m \in DOMAIN exact}

\* every Route reachable from the trees of a table
TreeRouteSet(nh, trees) ==
    UNION {{nodeCollect(nh, trees[m])[i] : i \in 1..Len(nodeCollect(nh, trees[m]))}
             : m \in {x \in DOMAIN trees : trees[x] # Nil}}

buildAllChains(rh, em, nh, exact, trees, globalMiddlewares) ==
    [r \in ExactRouteSet(em, exact) \cup TreeRouteSet(nh, trees)
        |-> buildChain(rh[r], globalMiddlewares)]

\* NewRouter: the synthetic 404 route and the first table
NewRouterRoutes == <<NewRoute(DefaultNotFound, <<>>, "", <<>>)>>

NewRouterTable ==
    NewTable(EmptyMap, EmptyMap, <<>>, 0, 1, MapPut(EmptyMap, 1, <<DefaultNotFound>>))

\* fault: the new middleware is put before the middleware already in use
UseBuildPrepend(rh, em, nh, old, middleware) ==
    LET newMiddlewares == middleware \o old.middlewares
        newChains == buildAllChains(rh, em, nh, old.exactRoutes, old.trees,
                                    newMiddlewares)
        notFoundChain == buildNotFoundChain(rh[old.notFoundRoute].handler,
                                            newMiddlewares)
    IN  [routes |-> rh, emaps |-> em, nodes |-> nh,
         table |-> NewTable(old.exactRoutes, old.trees, newMiddlewares, old.gen + 1,
                            old.notFoundRoute,
                            MapPut(newChains, old.notFoundRoute, notFoundChain))]

\* Router.Use up to the Store: the table constructed from table old
UseBuild(rh, em, nh, old, middleware) ==
    LET newMiddlewares == old.middlewares \o middleware
        newChains == buildAllChains(rh, em, nh, old.exactRoutes, old.trees,
                                    newMiddlewares)
        notFoundChain == buildNotFoundChain(rh[old.notFoundRoute].handler,
                                            newMiddlewares)
    IN  [routes |-> rh, emaps |-> em, nodes |-> nh,
         table |-> NewTable(old.exactRoutes, old.trees, newMiddlewares, old.gen + 1,
                            old.notFoundRoute,
                            MapPut(newChains, old.notFoundRoute, notFoundChain))]

\* the tree part of AddRoute: insertWithCopy into the method's tree, or an
\* in-place insert into a new tree
AddRouteTree(nh, oldTrees, method, path, route) ==
    IF MapGet(oldTrees, method) # Nil
    THEN treeInsertWithCopy(nh, oldTrees[method], path, route)
    ELSE [h |-> treeInsert(newTree(nh), Len(nh) + 1, path, route), id |-> Len(nh) + 1]

\* fault: an entry the static map already has under the pattern is kept
AddRouteExactKeepFirst(em, oldExact, method, path, route) ==
    LET c == copyExactRoutes(em, oldExact)
    IN  IF ~isStaticRoute(path) THEN c
        ELSE LET c1 == IF MapGet(c.exact, method) = Nil
                       THEN [emaps |-> Append(c.emaps, EmptyMap),
                             exact |-> MapPut(c.exact, method, Len(c.emaps) + 1)]
                       ELSE c
             IN  [emaps |-> [c1.emaps EXCEPT ![c1.exact[method]] =
                                IF path \in DOMAIN @ THEN @ ELSE MapPut(@, path, route)],
                  exact |-> c1.exact]

\* the static-map part of AddRoute: copy the maps, then write the new entry into
\* the copy when the pattern is static
AddRouteExact(em, oldExact, method, path, route) ==
    LET c == copyExactRoutes(em, oldExact)
    IN  IF ~isStaticRoute(path) THEN c
        ELSE LET c1 == IF MapGet(c.exact, method) = Nil
                       THEN [emaps |-> Append(c.emaps, EmptyMap),
                             exact |-> MapPut(c.exact, method, Len(c.emaps) + 1)]
                       ELSE c
             IN  [emaps |-> [c1.emaps EXCEPT ![c1.exact[method]] =
                                MapPut(c1.emaps[c1.exact[method]], path, route)],
                  exact |-> c1.exact]

\* fault: the new route's chain is not stored
AddRouteChainsStale(old, route, chain) == old.chains

\* fault: the chains of the routes already registered are rebuilt without
\* any middleware
AddRouteChainsBare(old, route, chain) ==
    [r \in DOMAIN old.chains \cup {route} |->
        IF r = route THEN chain ELSE <<old.chains[r][Len(old.chains[r])]>>]

\* the chains part of AddRoute: a copy of the old map plus the new route's chain
AddRouteChains(old, route, chain) == MapPut(old.chains, route, chain)

\* Router.AddRoute up to the Store
AddRouteBuild(rh, em, nh, old, method, path, handler, middleware) ==
    LET route == Len(rh) + 1
        rh1 == Append(rh, NewRoute(handler, middleware, method, path))
        e == AddRouteExact(em, old.exactRoutes, method, path, route)
        t == AddRouteTree(nh, old.trees, method, path, route)
        newTrees == MapPut(copyTrees(old.trees), method, t.id)
        newChains == AddRouteChains(old, route, buildChain(rh1[route], old.middlewares))
    IN  [routes |-> rh1, emaps |-> e.emaps, nodes |-> t.h,
         table |-> NewTable(e.exact, newTrees, old.middlewares, old.gen,
                            old.notFoundRoute, newChains)]

\* fault: the old 404 chain is dropped and the new one is not stored
NotFoundBuildNoChain(rh, em, nh, old, handler) ==
    [routes |-> Append(rh, NewRoute(handler, <<>>, "", <<>>)), emaps |-> em,
     nodes |-> nh,
     table |-> NewTable(old.exactRoutes, old.trees, old.middlewares, old.gen,
                        Len(rh) + 1, MapDelete(old.chains, old.notFoundRoute))]

\* Router.NotFound up to the Store
NotFoundBuild(rh, em, nh, old, handler) ==
    LET newNotFoundRoute == Len(rh) + 1
        rh1 == Append(rh, NewRoute(handler, <<>>, "", <<>>))
        newNotFoundChain == buildNotFoundChain(handler, old.middlewares)
    IN  [routes |-> rh1, emaps |-> em, nodes |-> nh,
         table |-> NewTable(old.exactRoutes, old.trees, old.middlewares, old.gen,
                            newNotFoundRoute,
                            MapPut(MapDelete(old.chains, old.notFoundRoute),
                                   newNotFoundRoute, newNotFoundChain))]

-----------------------------------------------------------------------------
(* Dispatch *)

\* fault: the static map is not consulted
ResolveTreeOnly(t, em, nh, method, path) ==
    LET s == IF MapGet(t.trees, method) # Nil
             THEN treeSearch(nh, t.trees[method], path)
             ELSE [route |-> Nil, params |-> NilParams]
    IN  IF s.route # Nil
        THEN [kind |-> "tree", route |-> s.route, params |-> s.params]
        ELSE [kind |-> "notfound", route |-> t.notFoundRoute, params |-> NilParams]

\* the route ServeHTTP resolves in table t, how it was found and the params
Resolve(t, em, nh, method, path) ==
    IF MapGet(t.exactRoutes, method) # Nil
       /\ path \in DOMAIN em[t.exactRoutes[method]]
    THEN [kind |-> "static", route |-> em[t.exactRoutes[method]][path],
          params |-> NilParams]
    ELSE LET s == IF MapGet(t.trees, method) # Nil
                  THEN treeSearch(nh, t.trees[method], path)
                  ELSE [route |-> Nil, params |-> NilParams]
         IN  IF s.route # Nil
             THEN [kind |-> "tree", route |-> s.route, params |-> s.params]
             ELSE [kind |-> "notfound", route |-> t.notFoundRoute,
                   params |-> NilParams]

\* table.chains[route]
ChainOf(t, route) == IF route \in DOMAIN t.chains THEN t.chains[route] ELSE NilHandler

RECURSIVE Reverse(_)
Reverse(s) == IF s = <<>> THEN <<>> ELSE Append(Reverse(Tail(s)), Head(s))

\* what calling a compiled Handler does: each middleware is entered and calls the
\* next one, the innermost handler runs, and the middleware return in turn
RECURSIVE Invoke(_)
Invoke(chain) ==
    IF Len(chain) = 1 THEN <<[ev |-> "handle", who |-> chain[1]]>>
    ELSE <<[ev |-> "enter", who |-> chain[1]]>>
         \o Invoke(Tail(chain))
         \o <<[ev |-> "leave", who |-> chain[1]]>>

-----------------------------------------------------------------------------
(* Patterns and request paths the operations are driven with *)

PRoot == <<"/">>
PUsers == <<"/", "u">>
PUsersSlash == <<"/", "u", "/">>
PUn == <<"/", "u", "n">>
PUsersNew == <<"/", "u", "/", "n">>
PUsersId == <<"/", "u", "/", ":", "i">>
PUsersNamePosts == <<"/", "u", "/", ":", "m", "/", "p">>

TreePatterns == {PUsers, PUsersSlash, PUn, PUsersNew, PUsersId, PUsersNamePosts}

TreePaths ==
    TreePatterns \cup {<<"/", "u", "/", "x">>, <<"/", "u", "/", "x", "/", "p">>,
                       <<"/", "x">>, PRoot}

\* strings.Split(s, "/")
RECURSIVE Split(_)
Split(s) ==
    IF IndexByte(s, Slash) = 0 THEN <<s>>
    ELSE <<SubSeq(s, 1, IndexByte(s, Slash) - 1)>>
         \o Split(SubSeq(s, IndexByte(s, Slash) + 1, Len(s)))

IsParamSeg(seg) == Len(seg) > 0 /\ seg[1] = Colon

\* the parameters a pattern names, with the request segment at each one's position
PatternParams(pattern, path) ==
    LET ps == Split(pattern)
        qs == Split(path)
        at == {i \in 1..Len(ps) : IsParamSeg(ps[i])}
    IN  {<<Tail(ps[i]), IF i <= Len(qs) THEN qs[i] ELSE <<>> >> : i \in at}

\* a params map as a set of <<name, value>> pairs
ParamPairs(params) == {<<k, params.kv[k]>> : k \in DOMAIN params.kv}

-----------------------------------------------------------------------------
(* Tree-level operations: one tree, grown by insert and insertWithCopy *)

NoFound == [done |-> FALSE, path |-> <<>>, n |-> 0, route |-> Nil, params |-> NilParams]
NoOutcome == [done |-> FALSE]
NoResp == [done |-> FALSE]

RouterIdle ==
    /\ emaps = <<>>
    /\ routes = <<>>
    /\ tables = <<>>
    /\ cur = Nil
    /\ mu = 0
    /\ writes = 0
    /\ used = <<>>
    /\ wpc = <<>>
    /\ wop = <<>>
    /\ wnew = <<>>
    /\ rpc = <<>>
    /\ rreq = <<>>
    /\ rtab = <<>>
    /\ rloads = <<>>
    /\ resp = NoResp

TreeInit ==
    /\ MoreIdle
    /\ nodes = newTree(<<>>)
    /\ treeRoot = 1
    /\ inserted = <<>>
    /\ found = NoFound
    /\ outcome = NoOutcome
    /\ RouterIdle

\* t.insert(pattern, route) with a fresh Route
TreeInsert(pattern) ==
    /\ Len(inserted) < MaxInserts
    /\ nodes' = treeInsert(nodes, treeRoot, pattern, Len(inserted) + 1)
    /\ inserted' = Append(inserted, pattern)
    /\ found' = NoFound
    /\ UNCHANGED <<moreVars, treeRoot, outcome, routerVars>>

\* t = t.insertWithCopy(pattern, route) with a fresh Route
TreeInsertWithCopy(pattern) ==
    /\ Len(inserted) < MaxInserts
    /\ LET r == treeInsertWithCopy(nodes, treeRoot, pattern, Len(inserted) + 1)
       IN  /\ nodes' = r.h
           /\ treeRoot' = r.id
    /\ inserted' = Append(inserted, pattern)
    /\ found' = NoFound
    /\ UNCHANGED <<moreVars, outcome, routerVars>>

\* t.search(path)
TreeSearch(path) ==
    /\ LET r == treeSearch(nodes, treeRoot, path)
       IN  found' = [done |-> TRUE, path |-> path, n |-> Len(inserted),
                     route |-> r.route, params |-> r.params]
    /\ UNCHANGED <<moreVars, nodes, treeRoot, inserted, outcome, routerVars>>

TreeNext ==
    \/ \E p \in TreePatterns : TreeInsert(p)
    \/ \E p \in TreePatterns : TreeInsertWithCopy(p)
    \/ \E q \in TreePaths : TreeSearch(q)

TreeSpec == TreeInit /\ [][TreeNext]_vars

\* The same operations on patterns that have no empty segment and that share
\* first bytes, so that nodes get several static children
PUx == <<"/", "u", "x">>
PX == <<"/", "x">>
ShapePatterns == {PUsers, PUn, PUx, PX, PUsersId, PUsersNamePosts}

ShapeNext ==
    \/ \E p \in ShapePatterns : TreeInsert(p)
    \/ \E p \in ShapePatterns : TreeInsertWithCopy(p)
    \/ \E q \in TreePaths : TreeSearch(q)

ShapeSpec == TreeInit /\ [][ShapeNext]_vars

\* A tree grown by both kinds of insert, on the patterns of both sets
CopyNext ==
    \/ \E p \in TreePatterns \cup ShapePatterns : TreeInsert(p)
    \/ \E p \in TreePatterns \cup ShapePatterns : TreeInsertWithCopy(p)

CopySpec == TreeInit /\ [][CopyNext]_vars

-----------------------------------------------------------------------------
(* The router, one call at a time: every registration call and every dispatch *)
(* runs from start to end without another call in between                    *)

\* the (method, pattern, middleware) triples AddRoute is called with
Registrations ==
    {<<MethodGET, PUn, <<>> >>, <<MethodGET, PUsersNew, <<"C">> >>,
     <<MethodGET, PUsersId, <<"C", "D">> >>, <<MethodPOST, PUsersId, <<>> >>}
ReqMethods == {MethodGET, MethodPOST}
ReqPaths == {PUn, PUsersNew, <<"/", "u", "/", "x">>, <<"/", "x">>}
GlobalMiddleware == {<<"A">>, <<"B">>}

TreeIdle ==
    /\ treeRoot = Nil
    /\ inserted = <<>>
    /\ found = NoFound

ConcIdle ==
    /\ mu = 0
    /\ wpc = <<>>
    /\ wop = <<>>
    /\ wnew = <<>>
    /\ rpc = <<>>
    /\ rreq = <<>>
    /\ rtab = <<>>
    /\ rloads = <<>>

\* NewRouter()
Init ==
    /\ MoreIdle
    /\ nodes = <<>>
    /\ emaps = <<>>
    /\ routes = NewRouterRoutes
    /\ tables = <<NewRouterTable>>
    /\ cur = 1
    /\ writes = 0
    /\ used = <<>>
    /\ resp = NoResp
    /\ outcome = NoOutcome
    /\ TreeIdle
    /\ ConcIdle

\* r.table.Store(new) of a constructed table, with the heaps it was built in
Publish(b) ==
    /\ routes' = b.routes
    /\ emaps' = b.emaps
    /\ nodes' = b.nodes
    /\ tables' = Append(tables, b.table)
    /\ cur' = Len(tables) + 1

seqUnchanged ==
    <<mu, wpc, wop, wnew, rpc, rreq, rtab, rloads, outcome, treeVars, moreVars>>

\* the handler a call passes: a function value of its own
FreshHandler(prefix) == prefix \o ToString(Len(routes) + 1)

\* router.Use(middleware...)
Use(middleware) ==
    /\ writes < MaxWrites
    /\ Publish(UseBuild(routes, emaps, nodes, tables[cur], middleware))
    /\ writes' = writes + 1
    /\ used' = used \o middleware
    /\ resp' = NoResp
    /\ UNCHANGED seqUnchanged

\* router.AddRoute(method, path, handler, middleware...)
AddRoute(method, path, middleware) ==
    /\ writes < MaxWrites
    /\ Publish(AddRouteBuild(routes, emaps, nodes, tables[cur], method, path,
                             FreshHandler("h"), middleware))
    /\ writes' = writes + 1
    /\ resp' = NoResp
    /\ UNCHANGED <<moreVars, used, seqUnchanged>>

\* router.NotFound(handler)
NotFound ==
    /\ writes < MaxWrites
    /\ Publish(NotFoundBuild(routes, emaps, nodes, tables[cur], FreshHandler("nf")))
    /\ writes' = writes + 1
    /\ resp' = NoResp
    /\ UNCHANGED <<moreVars, used, seqUnchanged>>

\* what ServeHTTP does with the table it loaded
Dispatch(tid, method, path) ==
    LET t == tables[tid]
        r == Resolve(t, emaps, nodes, method, path)
        chain == ChainOf(t, r.route)
    IN  [done |-> TRUE, method |-> method, path |-> path, table |-> tid,
         kind |-> r.kind, route |-> r.route, params |-> r.params,
         chain |-> chain,
         trace |-> IF chain = NilHandler THEN <<>> ELSE Invoke(chain)]

\* router.ServeHTTP(w, req)
ServeHTTP(method, path) ==
    /\ resp' = Dispatch(cur, method, path)
    /\ UNCHANGED <<moreVars, nodes, emaps, routes, tables, cur, writes, used, seqUnchanged>>

Next ==
    \/ \E mw \in GlobalMiddleware : Use(mw)
    \/ \E reg \in Registrations : AddRoute(reg[1], reg[2], reg[3])
    \/ NotFound
    \/ \E m \in ReqMethods, p \in ReqPaths : ServeHTTP(m, p)

Spec == Init /\ [][Next]_vars

\* Registration and dispatch of GET routes whose patterns differ in where a '/'
\* falls or by a trailing '/'
MatchPatterns == {PUsers, PUsersSlash, PUn, PUsersNew, PUsersId}
MatchPaths == {PUsers, PUsersSlash, PUn, PUsersNew, <<"/", "u", "/", "x">>, <<"/", "x">>}

MatchNext ==
    \/ \E p \in MatchPatterns : AddRoute(MethodGET, p, <<>>)
    \/ \E p \in MatchPaths : ServeHTTP(MethodGET, p)

MatchSpec == Init /\ [][MatchNext]_vars

\* Registration of GET routes of which one has a parameter where another has
\* a static segment, and dispatch of paths whose segment begins like the
\* static one
PUsersNx == <<"/", "u", "/", "n", "x">>
HidePatterns == {PUsers, PUsersNew, PUsersId, PUsersNamePosts}
HidePaths == {PUsersNew, PUsersNx, <<"/", "u", "/", "x">>}

HideNext ==
    \/ \E p \in HidePatterns : AddRoute(MethodGET, p, <<>>)
    \/ \E p \in HidePaths : ServeHTTP(MethodGET, p)

HideSpec == Init /\ [][HideNext]_vars

\* Registration of a static and of two parameterized GET patterns, each with
\* and without a middleware of its own and any number of times, with
\* Router.Use among the writes, and dispatch of the paths they match
DupPatterns == {PUn, PUsersId, PUsersNamePosts}
DupMiddleware == {<<>>, <<"C">>}
DupPaths == {PUn, <<"/", "u", "/", "x">>, <<"/", "u", "/", "x", "/", "p">>}

DupNext ==
    \/ \E p \in DupPatterns, mw \in DupMiddleware : AddRoute(MethodGET, p, mw)
    \/ Use(<<"A">>)
    \/ \E p \in DupPaths : ServeHTTP(MethodGET, p)

DupSpec == Init /\ [][DupNext]_vars

-----------------------------------------------------------------------------
(* Route groups.  A Group keeps its middleware in a slice, and Group.AddRoute *)
(* passes append(g.middlewares, middleware...) on to Router.AddRoute, which   *)
(* keeps that slice in the Route.  A slice is a backing array, a length and a *)
(* capacity; append writes into the backing array when the capacity allows    *)
(* it and allocates a larger array otherwise.  grp.arrays is the heap of      *)
(* backing arrays, grp.regs the slice each Route registered through the group *)
(* was given and the middleware it was registered with                        *)

MaxGroupLen == 3

\* the capacities the allocator has for slices of pointer-sized elements
SizeClassCaps == {1, 2, 3, 4, 6, 8, 10, 12, 14, 16}

\* the capacity append grows to: the length needed when that is more than
\* double the old capacity, else double, rounded up to an allocation size
GrowCap(oldCap, needed) ==
    LET want == IF needed > 2 * oldCap THEN needed ELSE 2 * oldCap
    IN  CHOOSE c \in SizeClassCaps :
            c >= want /\ \A d \in SizeClassCaps : d >= want => c <= d

\* the elements of slice s
SliceElems(arrays, s) == IF s.arr = 0 THEN <<>> ELSE SubSeq(arrays[s.arr], 1, s.len)

\* fault: append always copies into an array of its own
appendCopying(arrays, s, elems) ==
    [arrays |-> Append(arrays, SliceElems(arrays, s) \o elems),
     s |-> [arr |-> Len(arrays) + 1, len |-> s.len + Len(elems),
            cap |-> s.len + Len(elems)]]

\* append(s, elems...): the arrays and the slice after it
goAppend(arrays, s, elems) ==
    IF s.len + Len(elems) <= s.cap
    THEN [arrays |-> IF elems = <<>> THEN arrays
                     ELSE [arrays EXCEPT ![s.arr] =
                              [i \in 1..s.cap |->
                                  IF i > s.len /\ i <= s.len + Len(elems)
                                  THEN elems[i - s.len] ELSE @[i]]],
          s |-> [s EXCEPT !.len = s.len + Len(elems)]]
    ELSE [arrays |-> Append(arrays,
                            [i \in 1..GrowCap(s.cap, s.len + Len(elems)) |->
                                IF i <= s.len THEN arrays[s.arr][i]
                                ELSE IF i <= s.len + Len(elems) THEN elems[i - s.len]
                                ELSE ""]),
          s |-> [arr |-> Len(arrays) + 1, len |-> s.len + Len(elems),
                 cap |-> GrowCap(s.cap, s.len + Len(elems))]]

\* the slice a call passes for its variadic arguments
Variadic(arrays, elems) ==
    IF elems = <<>> THEN [arrays |-> arrays, s |-> NilSlice]
    ELSE [arrays |-> Append(arrays, elems),
          s |-> [arr |-> Len(arrays) + 1, len |-> Len(elems), cap |-> Len(elems)]]

GroupPrefix == <<"/", "a">>
GroupPaths == {<<"/", "x">>, <<"/", "y">>}
GroupMiddleware == {<<>>, <<"G1", "G2">>}
GroupRouteMiddleware == {<<>>, <<"R1">>, <<"R2">>}

\* router.Group(prefix, middleware...)
Group(prefix, middleware) ==
    /\ ~grp.made
    /\ grp' = [made |-> TRUE, prefix |-> prefix,
               middlewares |-> Variadic(grp.arrays, middleware).s,
               arrays |-> Variadic(grp.arrays, middleware).arrays, regs |-> <<>>]
    /\ UNCHANGED <<nodes, routerVars, treeVars, outcome, limiterVars, mwVars,
                   lifeVars, poolVars>>

\* the Routes as the backing arrays now show them: a Route registered through
\* the group holds the slice it was given, not a copy of its elements
Aliased(rh, g) ==
    [r \in 1..Len(rh) |->
        IF r \in DOMAIN g.regs
        THEN [rh[r] EXCEPT !.middlewares = SliceElems(g.arrays, g.regs[r].s)]
        ELSE rh[r]]

\* g.Use(middleware...)
GroupUse(middleware) ==
    /\ grp.made
    /\ grp.middlewares.len + Len(middleware) <= MaxGroupLen
    /\ grp' = [grp EXCEPT
                  !.middlewares = goAppend(grp.arrays, @, middleware).s,
                  !.arrays = goAppend(grp.arrays, grp.middlewares, middleware).arrays]
    /\ routes' = Aliased(routes, grp')
    /\ UNCHANGED <<nodes, emaps, tables, cur, mu, writes, used, wpc, wop, wnew, rpc,
                   rreq, rtab, rloads, resp, treeVars, outcome, limiterVars, mwVars,
                   lifeVars, poolVars>>

\* the group once the Route made next holds slice a.s
Registered21(g, route, a, middleware) ==
    [g EXCEPT !.arrays = a.arrays,
              !.regs = MapPut(@, route,
                              [s |-> a.s,
                               want |-> SliceElems(g.arrays, g.middlewares)
                                           \o middleware])]

\* g.AddRoute(method, path, handler, middleware...)
GroupAddRoute(method, path, middleware) ==
    /\ grp.made
    /\ writes < MaxWrites
    /\ grp' = Registered21(grp, Len(routes) + 1,
                           goAppend(grp.arrays, grp.middlewares, middleware),
                           middleware)
    /\ Publish(AddRouteBuild(
           Aliased(routes, [grp EXCEPT !.arrays =
                      goAppend(grp.arrays, grp.middlewares, middleware).arrays]),
           emaps, nodes, tables[cur], method, grp.prefix \o path, FreshHandler("h"),
           SliceElems(goAppend(grp.arrays, grp.middlewares, middleware).arrays,
                      goAppend(grp.arrays, grp.middlewares, middleware).s)))
    /\ writes' = writes + 1
    /\ resp' = NoResp
    /\ UNCHANGED <<used, mu, wpc, wop, wnew, rpc, rreq, rtab, rloads, outcome,
                   treeVars, limiterVars, mwVars, lifeVars, poolVars>>

GroupNext ==
    \/ \E mw \in GroupMiddleware : Group(GroupPrefix, mw)
    \/ GroupUse(<<"G3">>)
    \/ \E p \in GroupPaths, mw \in GroupRouteMiddleware : GroupAddRoute(MethodGET, p, mw)
    \/ Use(<<"A">>)
    \/ \E p \in GroupPaths : ServeHTTP(MethodGET, GroupPrefix \o p)

GroupSpec == Init /\ [][GroupNext]_vars

-----------------------------------------------------------------------------
(* The router under concurrency: writer goroutines each make one registration *)
(* call, step by step (Lock, construct, Store, Unlock); a dispatcher          *)
(* goroutine serves one request (NewContext, Load, resolve and run)           *)

Writers == {1, 2}
Readers == {1}

PIdAb == <<"/", ":", "i", "/", "a", "b">>
PIdASlashB == <<"/", ":", "i", "/", "a", "/", "b">>

Call(op, method, path, middleware) ==
    [op |-> op, method |-> method, path |-> path, middleware |-> middleware,
     route |-> Nil]

WriterCalls ==
    {Call("AddRoute", MethodGET, PIdAb, <<"C">>),
     Call("AddRoute", MethodGET, PIdASlashB, <<>>),
     Call("Use", "", <<>>, <<"A">>),
     Call("Use", "", <<>>, <<"B">>),
     Call("NotFound", "", <<>>, <<>>)}

NoCall == Call("", "", <<>>, <<>>)

Requests ==
    {[method |-> MethodGET, path |-> <<"/", "x", "/", "a", "b">>],
     [method |-> MethodGET, path |-> <<"/", "x", "/", "a", "/", "b">>],
     [method |-> MethodGET, path |-> <<"/", "y">>]}

NoRequest == [method |-> "", path |-> <<>>, after |-> {}, held |-> 0]

ConcInit ==
    /\ MoreIdle
    /\ nodes = <<>>
    /\ emaps = <<>>
    /\ routes = NewRouterRoutes
    /\ tables = <<NewRouterTable>>
    /\ cur = 1
    /\ mu = 0
    /\ writes = 0
    /\ used = <<>>
    /\ wpc = [w \in Writers |-> "idle"]
    /\ wop = [w \in Writers |-> NoCall]
    /\ wnew = [w \in Writers |-> Nil]
    /\ rpc = [r \in Readers |-> "idle"]
    /\ rreq = [r \in Readers |-> NoRequest]
    /\ rtab = [r \in Readers |-> Nil]
    /\ rloads = [r \in Readers |-> 0]
    /\ resp = [r \in Readers |-> NoResp]
    /\ outcome = NoOutcome
    /\ TreeIdle

heapVars == <<nodes, emaps, routes, tables>>
readerVars == <<rpc, rreq, rtab, rloads, resp>>

\* r.mu.Lock() at the start of a registration call: blocks while the mutex is held
WLock(w, call) ==
    /\ wpc[w] = "idle"
    /\ mu = 0
    /\ mu' = w
    /\ wop' = [wop EXCEPT ![w] = call]
    /\ wpc' = [wpc EXCEPT ![w] = "locked"]
    /\ writes' = writes + 1
    /\ used' = IF call.op = "Use" THEN used \o call.middleware ELSE used
    /\ UNCHANGED <<moreVars, heapVars, cur, wnew, readerVars, outcome, treeVars>>

\* the table a call constructs from the table it loads
BuildFor(call, old) ==
    IF call.op = "Use"
    THEN UseBuild(routes, emaps, nodes, old, call.middleware)
    ELSE IF call.op = "AddRoute"
    THEN AddRouteBuild(routes, emaps, nodes, old, call.method, call.path,
                       FreshHandler("h"), call.middleware)
    ELSE NotFoundBuild(routes, emaps, nodes, old, FreshHandler("nf"))

\* the objects a call allocates, its new table among them, not yet stored
Construct(b) ==
    /\ routes' = b.routes
    /\ emaps' = b.emaps
    /\ nodes' = b.nodes
    /\ tables' = Append(tables, b.table)

\* old := r.table.Load() and the construction of the new table
WBuild(w) ==
    /\ wpc[w] = "locked"
    /\ Construct(BuildFor(wop[w], tables[cur]))
    /\ wnew' = [wnew EXCEPT ![w] = Len(tables) + 1]
    /\ wop' = [wop EXCEPT ![w].route =
                  IF wop[w].op = "Use" THEN Nil ELSE Len(routes) + 1]
    /\ wpc' = [wpc EXCEPT ![w] = "built"]
    /\ UNCHANGED <<moreVars, cur, mu, writes, used, readerVars, outcome, treeVars>>

\* r.table.Store(new)
WStore(w) ==
    /\ wpc[w] = "built"
    /\ cur' = wnew[w]
    /\ wpc' = [wpc EXCEPT ![w] = "stored"]
    /\ UNCHANGED <<moreVars, heapVars, mu, writes, used, wop, wnew, readerVars, outcome, treeVars>>

\* the deferred r.mu.Unlock(): the call returns
WUnlock(w) ==
    /\ wpc[w] = "stored"
    /\ mu' = 0
    /\ wpc' = [wpc EXCEPT ![w] = "done"]
    /\ UNCHANGED <<moreVars, heapVars, cur, writes, used, wop, wnew, readerVars, outcome, treeVars>>

\* ServeHTTP is called: ctx := NewContext(w, req)
RStart(r, req) ==
    /\ rpc[r] = "idle"
    /\ rreq' = [rreq EXCEPT ![r] =
                  [method |-> req.method, path |-> req.path,
                   after |-> {w \in Writers : wpc[w] = "done"}, held |-> mu]]
    /\ rpc' = [rpc EXCEPT ![r] = "started"]
    /\ UNCHANGED <<moreVars, heapVars, cur, mu, writes, used, wpc, wop, wnew, rtab, rloads,
                   resp, outcome, treeVars>>

\* fault: the table is read under the writers' mutex
RLoadUnderMutex(r) ==
    /\ rpc[r] = "started"
    /\ mu = 0
    /\ rtab' = [rtab EXCEPT ![r] = cur]
    /\ rloads' = [rloads EXCEPT ![r] = rloads[r] + 1]
    /\ rpc' = [rpc EXCEPT ![r] = "loaded"]
    /\ UNCHANGED <<moreVars, heapVars, cur, mu, writes, used, wpc, wop, wnew, rreq, resp,
                   outcome, treeVars>>

\* table := r.table.Load()
RLoad(r) ==
    /\ rpc[r] = "started"
    /\ rtab' = [rtab EXCEPT ![r] = cur]
    /\ rloads' = [rloads EXCEPT ![r] = rloads[r] + 1]
    /\ rpc' = [rpc EXCEPT ![r] = "loaded"]
    /\ UNCHANGED <<moreVars, heapVars, cur, mu, writes, used, wpc, wop, wnew, rreq, resp,
                   outcome, treeVars>>

\* the rest of ServeHTTP: the lookups in the loaded table and the chain call
RServe(r) ==
    /\ rpc[r] = "loaded"
    /\ resp' = [resp EXCEPT ![r] = Dispatch(rtab[r], rreq[r].method, rreq[r].path)]
    /\ rpc' = [rpc EXCEPT ![r] = "done"]
    /\ UNCHANGED <<moreVars, heapVars, cur, mu, writes, used, wpc, wop, wnew, rreq, rtab,
                   rloads, outcome, treeVars>>

ConcNext ==
    \/ \E w \in Writers, call \in WriterCalls : WLock(w, call)
    \/ \E w \in Writers : WBuild(w)
    \/ \E w \in Writers : WStore(w)
    \/ \E w \in Writers : WUnlock(w)
    \/ \E r \in Readers, req \in Requests : RStart(r, req)
    \/ \E r \in Readers : RLoad(r)
    \/ \E r \in Readers : RServe(r)

ConcSpec == ConcInit /\ [][ConcNext]_vars

\* the Go scheduler runs every runnable goroutine: a dispatcher that can take its
\* next step eventually takes it.  Nothing is assumed of the writers, which may
\* hold the mutex for any length of time
\* RServe as it shows in the dispatcher's position: in ConcSpec the steps that
\* take rpc[r] from "loaded" to "done" are exactly the RServe(r) steps, and
\* RServe(r) is enabled exactly when rpc[r] = "loaded"
RServeTaken(r) == rpc[r] = "loaded" /\ rpc' = [rpc EXCEPT ![r] = "done"]

FairConcSpec ==
    /\ ConcSpec
    /\ \A r \in Readers : WF_vars(RLoad(r)) /\ WF_rpc(RServeTaken(r))

-----------------------------------------------------------------------------
(* The handler return triple: executeHandler calls the compiled chain and     *)
(* turns what it returns into calls on the response writer.  The writer is    *)
(* the sequence of calls made on it; the Context carries it and the status    *)
(* stored under StatusCodeKey                                                 *)

StatusOK == 200

StatusNoContent == 204
StatusBadRequest == 400
StatusNotFound == 404
StatusInternalServerError == 500

NilData == [kind |-> "nil", v |-> ""]
NilErr == [kind |-> "nil", code |-> "", message |-> ""]

\* data values: nil, a value with a JSON encoding and one json.Marshal rejects
\* (a channel, a func, a NaN)
DataValues ==
    {NilData, [kind |-> "value", v |-> "v"], [kind |-> "unencodable", v |-> ""]}

\* errors: nil, a plain error and an *APIError
ErrValues ==
    {NilErr,
     [kind |-> "error", code |-> "", message |-> "boom"],
     [kind |-> "APIError", code |-> "not_found", message |-> "gone"]}

StatusValues ==
    {0, StatusOK, 201, StatusNoContent, StatusBadRequest, StatusNotFound,
     StatusInternalServerError}

\* a handler: whether it writes a response itself, and the triple it returns
Handlers ==
    [writes : BOOLEAN, data : DataValues, statusCode : StatusValues, err : ErrValues]

\* a Context on a fresh writer
NewContext == [calls |-> 0, statusCode |-> 0, writer |-> <<>>]

\* the error envelope {error: code, message: message}
NewErrorResponse(statusCode, code, message) ==
    [shape |-> "error", error |-> code, message |-> message, data |-> NilData]

\* the success envelope {success: true, data: data}
NewSuccessResponse(data, message) ==
    [shape |-> "success", error |-> "", message |-> message, data |-> data]

\* json.Marshal of an envelope: the object's tokens, or an error when the data
\* in it has no JSON encoding
jsonMarshal(v) ==
    IF v.data.kind = "unencodable" THEN [err |-> TRUE, bytes |-> <<>>]
    ELSE IF v.shape = "error"
    THEN [err |-> FALSE,
          bytes |-> <<"{", "error", ":", v.error, ",", "message", ":", v.message, "}">>]
    ELSE [err |-> FALSE,
          bytes |-> <<"{", "success", ":", "true", ",", "data", ":",
                      IF v.data.kind = "nil" THEN "null" ELSE v.data.v, "}">>]

\* Context.Data
Data(c, statusCode, contentType, data) ==
    [c EXCEPT !.statusCode = statusCode,
              !.writer = @ \o <<[call |-> "Header.Set", status |-> 0,
                                 arg |-> <<"Content-Type", contentType>>],
                                [call |-> "WriteHeader", status |-> statusCode,
                                 arg |-> <<>>],
                                [call |-> "Write", status |-> 0, arg |-> data]>>]

\* Context.JSON
JSON(c, statusCode, data) ==
    LET m == jsonMarshal(data)
    IN  IF m.err THEN c ELSE Data(c, statusCode, "application/json", m.bytes)

\* Context.HTML
HTML(c, statusCode, html) == Data(c, statusCode, "text/html; charset=utf-8", html)

\* handler(ctx): the Context after the call, and the triple
CallHandler(c, h) ==
    LET c1 == [c EXCEPT !.calls = @ + 1]
    IN  [ctx |-> IF h.writes THEN HTML(c1, StatusOK, <<"page">>) ELSE c1,
         data |-> h.data, statusCode |-> h.statusCode, err |-> h.err]

\* fault: a no-content result is sent as an empty success envelope
NoContentAsJSON(c) == JSON(c, StatusNoContent, NewSuccessResponse(NilData, ""))

\* the no-content branch of executeHandler
NoContent(c) ==
    [c EXCEPT !.statusCode = StatusNoContent,
              !.writer = @ \o <<[call |-> "WriteHeader", status |-> StatusNoContent,
                                 arg |-> <<>>]>>]

\* Router.executeHandler: the Context after it
executeHandler(ctx, handler) ==
    LET ret == CallHandler(ctx, handler)
        c == ret.ctx
    IN  IF ret.statusCode = 0 /\ ret.err = NilErr THEN c
        ELSE IF ret.err # NilErr
        THEN LET statusCode == IF ret.statusCode = 0 THEN StatusInternalServerError
                               ELSE ret.statusCode
             IN  IF ret.err.kind = "APIError"
                 THEN JSON(c, statusCode,
                           NewErrorResponse(statusCode, ret.err.code, ret.err.message))
                 ELSE JSON(c, statusCode,
                           NewErrorResponse(statusCode, "error", ret.err.message))
        ELSE LET statusCode == IF ret.statusCode = 0 THEN StatusOK ELSE ret.statusCode
             IN  IF statusCode = StatusNoContent
                    \/ (ret.data = NilData /\ statusCode = StatusOK)
                 THEN NoContent(c)
                 ELSE JSON(c, statusCode, NewSuccessResponse(ret.data, ""))

ExecInit ==
    /\ MoreIdle
    /\ outcome = NoOutcome
    /\ nodes = <<>>
    /\ RouterIdle
    /\ TreeIdle

\* one dispatch reaches executeHandler with a fresh Context and chain h
ExecuteHandler(h) ==
    /\ outcome' = [done |-> TRUE, handler |-> h,
                   before |-> CallHandler(NewContext, h).ctx,
                   ctx |-> executeHandler(NewContext, h)]
    /\ UNCHANGED <<moreVars, nodes, routerVars, treeVars>>

ExecNext == \E h \in Handlers : ExecuteHandler(h)

ExecSpec == ExecInit /\ [][ExecNext]_vars

StatusTooManyRequests == 429

\* nimbus.NewAPIError(code, message)
NewAPIError(code, message) == [kind |-> "APIError", code |-> code, message |-> message]

-----------------------------------------------------------------------------
(* The token-bucket rate limiter.  The clock counts whole seconds, so the     *)
(* refill int64(elapsedSeconds * rate) is elapsed * rate with nothing to      *)
(* truncate.  A bucket made by LoadOrStore holds the zero values until allow  *)
(* has stored tokens and lastSeen into it                                     *)

StartTime == 4
MaxElapsed == 2
MaxRate == 1
MaxCapacity == 2
MaxAttempts == 4

Keys == {"k1", "k2"}

\* &bucket{}
ZeroBucket == [tokens |-> 0, lastSeen |-> 0]

\* NewRateLimiter(rate, capacity)
NewRateLimiter(rate, capacity) == [rate |-> rate, capacity |-> capacity]

\* the locals of an allow call that has read the clock
AllowEntry(key, now) ==
    [pc |-> "loadOrStore", key |-> key, now |-> now, currentTokens |-> 0,
     lastSeen |-> 0, ok |-> FALSE]

AllowIdle == [pc |-> "idle", key |-> "", now |-> 0, currentTokens |-> 0,
              lastSeen |-> 0, ok |-> FALSE]

\* fault: a new bucket starts full although the call that makes it is admitted
InitialTokensFull(rl) == rl.capacity

\* b.tokens.Store(int64(rl.capacity - 1))
InitialTokens(rl) == rl.capacity - 1

-----------------------------------------------------------------------------
(* float64 arithmetic, as far as allow uses it: the conversion of an integer, *)
(* the correctly rounded quotient and product (round to nearest, ties to      *)
(* even, 53 significant bits) and the truncating conversion to int64.  Large  *)
(* integers are sequences of digits (base 2^20) or of bits, most significant  *)
(* first; a float64 is its 53-bit significand m and the exponent e of m's     *)
(* last bit: it is m * 2^e.  time.Second is 10^9 = 1000 * 1000 * 1000, and    *)
(* the integer part of a quotient by it is found by dividing by 1000 thrice   *)

MantissaBits == 53
DigitBits == 20
DigitBase == 2 ^ DigitBits
Thousand == 1000

RECURSIVE BitsToInt(_)
BitsToInt(b) ==
    IF b = <<>> THEN 0 ELSE 2 * BitsToInt(SubSeq(b, 1, Len(b) - 1)) + b[Len(b)]

Zeros(k) == [i \in 1..k |-> 0]

\* the two digits of a natural number below 2^31
Digits(n) == <<n \div DigitBase, n % DigitBase>>

\* the bits of a sequence of digits
DigitsToBits(d) ==
    [j \in 1..(DigitBits * Len(d)) |->
        (d[((j - 1) \div DigitBits) + 1] \div 2 ^ (DigitBits - 1 - ((j - 1) % DigitBits))) % 2]

\* the digits of a sequence of bits whose length is a multiple of DigitBits
BitsToDigits(b) ==
    [k \in 1..(Len(b) \div DigitBits) |->
        BitsToInt(SubSeq(b, (k - 1) * DigitBits + 1, k * DigitBits))]

\* b without its leading zeros
Strip(b) ==
    IF \A i \in 1..Len(b) : b[i] = 0 THEN <<>>
    ELSE SubSeq(b, CHOOSE i \in 1..Len(b) : b[i] = 1 /\ \A j \in 1..(i - 1) : b[j] = 0,
                Len(b))

RECURSIVE DivFrom(_, _, _, _, _)
\* long division of digits d by a divisor of at most 2^11, from digit i on:
\* quotient q and remainder r
DivFrom(d, i, divisor, rem, q) ==
    IF i > Len(d) THEN [q |-> q, r |-> rem]
    ELSE DivFrom(d, i + 1, divisor, (rem * DigitBase + d[i]) % divisor,
                 Append(q, (rem * DigitBase + d[i]) \div divisor))

\* digits d divided by time.Second: the quotient, and whether it is exact
DivSecond(d) ==
    LET a == DivFrom(d, 1, Thousand, 0, <<>>)
        b == DivFrom(a.q, 1, Thousand, 0, <<>>)
        c == DivFrom(b.q, 1, Thousand, 0, <<>>)
    IN  [q |-> c.q, exact |-> a.r = 0 /\ b.r = 0 /\ c.r = 0]

RECURSIVE MulFrom(_, _, _, _, _)
\* digits d times a number k below 2^11, from digit i down
MulFrom(d, i, k, carry, acc) ==
    IF i = 0 THEN <<carry>> \o acc
    ELSE MulFrom(d, i - 1, k, (d[i] * k + carry) \div DigitBase,
                 <<(d[i] * k + carry) % DigitBase>> \o acc)

\* bits b plus one
Inc(b) ==
    IF \A i \in 1..Len(b) : b[i] = 1 THEN <<1>> \o Zeros(Len(b))
    ELSE [i \in 1..Len(b) |->
            IF \E j \in (i + 1)..Len(b) : b[j] = 0 THEN b[i]
            ELSE IF b[i] = 0 THEN 1 ELSE 0]

FloatZero == [m |-> <<>>, e |-> 0]

\* the float64 nearest to b * 2^e (plus a little, when sticky), b being bits
\* without leading zeros: ties go to the even significand
RoundFloat(b, e, sticky) ==
    IF b = <<>> THEN FloatZero
    ELSE IF Len(b) <= MantissaBits
    THEN [m |-> b \o Zeros(MantissaBits - Len(b)), e |-> e - (MantissaBits - Len(b))]
    ELSE LET keep == SubSeq(b, 1, MantissaBits)
             rest == sticky \/ \E i \in (MantissaBits + 2)..Len(b) : b[i] = 1
             up == b[MantissaBits + 1] = 1 /\ (rest \/ keep[MantissaBits] = 1)
             r == IF up THEN Inc(keep) ELSE keep
         IN  IF Len(r) > MantissaBits
             THEN [m |-> SubSeq(r, 1, MantissaBits), e |-> e + Len(b) - MantissaBits + 1]
             ELSE [m |-> r, e |-> e + Len(b) - MantissaBits]

\* float64(n) / float64(time.Second) for a natural number n below 2^31: the
\* quotient of n * 2^120 by 10^9 has more than 53 bits
FloatDivSecond(n) ==
    IF n = 0 THEN FloatZero
    ELSE RoundFloat(Strip(DigitsToBits(DivSecond(Digits(n) \o Zeros(6)).q)),
                    0 - 6 * DigitBits,
                    ~DivSecond(Digits(n) \o Zeros(6)).exact)

\* f * float64(k) for a natural number k below 2^11
FloatMul(f, k) ==
    IF f = FloatZero \/ k = 0 THEN FloatZero
    ELSE RoundFloat(
           Strip(DigitsToBits(
              MulFrom(BitsToDigits(Zeros(3 * DigitBits - MantissaBits) \o f.m),
                      3, k, 0, <<>>))),
           f.e, FALSE)

\* int64(f): the fraction is cut off
FloatToInt(f) ==
    IF f = FloatZero THEN 0
    ELSE IF f.e >= 0 THEN BitsToInt(f.m \o Zeros(f.e))
    ELSE IF MantissaBits + f.e <= 0 THEN 0
    ELSE BitsToInt(SubSeq(f.m, 1, MantissaBits + f.e))

\* int64(float64(elapsedNanos) / float64(time.Second) * float64(rate))
RefillFloat(elapsedNanos, rate) ==
    IF elapsedNanos >= 0 THEN FloatToInt(FloatMul(FloatDivSecond(elapsedNanos), rate))
    ELSE 0 - FloatToInt(FloatMul(FloatDivSecond(0 - elapsedNanos), rate))

\* floor(elapsedNanos * rate / 10^9), computed in integers
RefillExact(elapsedNanos, rate) ==
    BitsToInt(Strip(DigitsToBits(
        DivSecond(MulFrom(Digits(elapsedNanos), 2, rate, 0, <<>>)).q)))

\* time.Second in the unit the clock of limiter rl counts: nanoseconds where
\* the limiter says so, whole seconds everywhere else
Second == Thousand * Thousand * Thousand

SecondOf(rl) == IF "second" \in DOMAIN rl THEN rl.second ELSE 1

\* refill of the CAS loop.  On a clock of whole seconds the quotient is the
\* integer elapsed and the product elapsed * rate, both exact in float64
Refill(rl, elapsed) ==
    IF SecondOf(rl) = 1 THEN elapsed * rl.rate
    ELSE RefillFloat(elapsed, rl.rate)

\* fault: the refilled count is not capped at capacity
NewTokensNoCap(rl, a) == a.currentTokens + (a.now - a.lastSeen) * rl.rate

\* newTokens of the CAS loop
NewTokens(rl, a) ==
    Min(a.currentTokens + Refill(rl, a.now - a.lastSeen), rl.capacity)

\* b.lastSeen.CompareAndSwap(lastSeen, now)
CasLastSeen(bk, a) ==
    IF bk[a.key].lastSeen = a.lastSeen
    THEN [bk EXCEPT ![a.key].lastSeen = a.now]
    ELSE bk

\* fault: after a failed compare-and-swap the loop tries the same swap again
\* without loading the bucket anew
allowStepNoReload(rl, bk, a) ==
    IF a.pc = "loadOrStore"
    THEN IF a.key \in DOMAIN bk
         THEN [bk |-> bk, a |-> [a EXCEPT !.pc = "loadTokens"]]
         ELSE [bk |-> MapPut(bk, a.key, ZeroBucket),
               a |-> [a EXCEPT !.pc = "storeTokens"]]
    ELSE IF a.pc = "storeTokens"
    THEN [bk |-> [bk EXCEPT ![a.key].tokens = InitialTokens(rl)],
          a |-> [a EXCEPT !.pc = "storeLastSeen"]]
    ELSE IF a.pc = "storeLastSeen"
    THEN [bk |-> [bk EXCEPT ![a.key].lastSeen = a.now],
          a |-> [a EXCEPT !.pc = "done", !.ok = TRUE]]
    ELSE IF a.pc = "loadTokens"
    THEN [bk |-> bk,
          a |-> [a EXCEPT !.pc = "loadLastSeen", !.currentTokens = bk[a.key].tokens]]
    ELSE IF a.pc = "loadLastSeen"
    THEN [bk |-> bk,
          a |-> [a EXCEPT !.pc = "cas", !.lastSeen = bk[a.key].lastSeen]]
    ELSE IF a.pc = "cas"
    THEN IF NewTokens(rl, a) <= 0
         THEN [bk |-> CasLastSeen(bk, a),
               a |-> [a EXCEPT !.pc = "done", !.ok = FALSE]]
         ELSE IF bk[a.key].tokens = a.currentTokens
         THEN [bk |-> [bk EXCEPT ![a.key].tokens = NewTokens(rl, a) - 1],
               a |-> [a EXCEPT !.pc = "casLastSeen"]]
         ELSE [bk |-> bk, a |-> a]
    ELSE IF a.pc = "casLastSeen"
    THEN [bk |-> CasLastSeen(bk, a),
          a |-> [a EXCEPT !.pc = "done", !.ok = TRUE]]
    ELSE [bk |-> bk, a |-> a]

\* one atomic operation of RateLimiter.allow: the buckets and the locals after it
allowStep(rl, bk, a) ==
    IF a.pc = "loadOrStore"
    THEN IF a.key \in DOMAIN bk
         THEN [bk |-> bk, a |-> [a EXCEPT !.pc = "loadTokens"]]
         ELSE [bk |-> MapPut(bk, a.key, ZeroBucket),
               a |-> [a EXCEPT !.pc = "storeTokens"]]
    ELSE IF a.pc = "storeTokens"
    THEN [bk |-> [bk EXCEPT ![a.key].tokens = InitialTokens(rl)],
          a |-> [a EXCEPT !.pc = "storeLastSeen"]]
    ELSE IF a.pc = "storeLastSeen"
    THEN [bk |-> [bk EXCEPT ![a.key].lastSeen = a.now],
          a |-> [a EXCEPT !.pc = "done", !.ok = TRUE]]
    ELSE IF a.pc = "loadTokens"
    THEN [bk |-> bk,
          a |-> [a EXCEPT !.pc = "loadLastSeen", !.currentTokens = bk[a.key].tokens]]
    ELSE IF a.pc = "loadLastSeen"
    THEN [bk |-> bk,
          a |-> [a EXCEPT !.pc = "cas", !.lastSeen = bk[a.key].lastSeen]]
    ELSE IF a.pc = "cas"
    THEN IF NewTokens(rl, a) <= 0
         THEN [bk |-> CasLastSeen(bk, a),
               a |-> [a EXCEPT !.pc = "done", !.ok = FALSE]]
         ELSE IF bk[a.key].tokens = a.currentTokens
         THEN [bk |-> [bk EXCEPT ![a.key].tokens = NewTokens(rl, a) - 1],
               a |-> [a EXCEPT !.pc = "casLastSeen"]]
         ELSE [bk |-> bk, a |-> [a EXCEPT !.pc = "loadTokens"]]
    ELSE IF a.pc = "casLastSeen"
    THEN [bk |-> CasLastSeen(bk, a),
          a |-> [a EXCEPT !.pc = "done", !.ok = TRUE]]
    ELSE [bk |-> bk, a |-> a]

RECURSIVE allowFrom(_, _, _)
\* RateLimiter.allow run to its return with no other goroutine in between
allowFrom(rl, bk, a) ==
    IF a.pc = "done" THEN [bk |-> bk, a |-> a]
    ELSE allowFrom(rl, allowStep(rl, bk, a).bk, allowStep(rl, bk, a).a)

allow(rl, bk, key, now) == allowFrom(rl, bk, AllowEntry(key, now))

\* what the log keeps of a returned call
LogEntry(a, bk, ret) ==
    [key |-> a.key, now |-> a.now, ok |-> a.ok, tokens |-> bk[a.key].tokens,
     ret |-> ret]

\* one goroutine calling allow, calls one after another
BurstInit ==
    /\ clock = StartTime
    /\ limiter \in {NewRateLimiter(r, c) : r \in 0..MaxRate, c \in 0..MaxCapacity}
    /\ buckets = EmptyMap
    /\ apc = <<>>
    /\ alog = <<>>
    /\ LaterIdle
    /\ outcome = NoOutcome
    /\ nodes = <<>>
    /\ RouterIdle
    /\ TreeIdle

otherVars == <<nodes, routerVars, treeVars, outcome, laterVars>>

\* limiter.allow(key), start to return
Allow(key) ==
    /\ Len(alog) < MaxAttempts
    /\ buckets' = allow(limiter, buckets, key, clock).bk
    /\ alog' = Append(alog, LogEntry(allow(limiter, buckets, key, clock).a,
                                     allow(limiter, buckets, key, clock).bk, clock))
    /\ UNCHANGED <<clock, limiter, apc, otherVars>>

\* a second passes
Tick ==
    /\ clock < StartTime + MaxElapsed
    /\ clock' = clock + 1
    /\ UNCHANGED <<limiter, buckets, apc, alog, otherVars>>

BurstNext ==
    \/ \E key \in Keys : Allow(key)
    \/ Tick

BurstSpec == BurstInit /\ [][BurstNext]_vars

\* fault: the wrapped handler runs before the limiter is asked, and its result
\* is dropped on a denial
RateLimitNextFirst(rl, bk, next, ctx, key, now) ==
    LET r == allow(rl, bk, key, now)
        n == CallHandler(ctx, next)
    IN  IF ~r.a.ok
        THEN [bk |-> r.bk, admitted |-> FALSE, ctx |-> n.ctx, data |-> NilData,
              statusCode |-> StatusTooManyRequests,
              err |-> NewAPIError("rate_limit_exceeded",
                                  "Too many requests, please try again later")]
        ELSE [bk |-> r.bk, admitted |-> TRUE, ctx |-> n.ctx, data |-> n.data,
              statusCode |-> n.statusCode, err |-> n.err]

\* the handler RateLimit(...)(next), called with ctx for a request of key:
\* the buckets and the Context after it, and the triple it returns
RateLimit(rl, bk, next, ctx, key, now) ==
    LET r == allow(rl, bk, key, now)
        n == CallHandler(ctx, next)
    IN  IF ~r.a.ok
        THEN [bk |-> r.bk, admitted |-> FALSE, ctx |-> ctx, data |-> NilData,
              statusCode |-> StatusTooManyRequests,
              err |-> NewAPIError("rate_limit_exceeded",
                                  "Too many requests, please try again later")]
        ELSE [bk |-> r.bk, admitted |-> TRUE, ctx |-> n.ctx, data |-> n.data,
              statusCode |-> n.statusCode, err |-> n.err]

\* what is kept of a middleware call
MwCall(next, key, r) ==
    [done |-> TRUE, next |-> next, key |-> key, admitted |-> r.admitted,
     ctx |-> r.ctx, data |-> r.data, statusCode |-> r.statusCode, err |-> r.err]

\* requests pass through the rate-limiting middleware one after another
MwInit ==
    /\ clock = StartTime
    /\ limiter \in {NewRateLimiter(r, c) : r \in 0..MaxRate, c \in 0..MaxCapacity}
    /\ buckets = EmptyMap
    /\ apc = <<>>
    /\ alog = <<>>
    /\ mwcall = NoMwCall
    /\ AfterMwIdle
    /\ outcome = NoOutcome
    /\ nodes = <<>>
    /\ RouterIdle
    /\ TreeIdle

mwOther == <<nodes, routerVars, treeVars, outcome, afterMwVars>>

\* a request of key reaches the middleware's handler, which wraps next
MwServe(key, next) ==
    /\ buckets' = RateLimit(limiter, buckets, next, NewContext, key, clock).bk
    /\ mwcall' = MwCall(next, key,
                        RateLimit(limiter, buckets, next, NewContext, key, clock))
    /\ UNCHANGED <<clock, limiter, apc, alog, mwOther>>

MwTick ==
    /\ clock < StartTime + MaxElapsed
    /\ clock' = clock + 1
    /\ UNCHANGED <<limiter, buckets, apc, alog, mwcall, mwOther>>

\* the handlers the middleware wraps: one returning data, one a plain error and
\* one an *APIError, each writing a response itself or not
NextHandlers ==
    {h \in Handlers :
        \/ h.data.kind = "value" /\ h.statusCode = StatusOK /\ h.err = NilErr
        \/ h.data = NilData /\ h.statusCode = 0 /\ h.err.kind = "error"
        \/ h.data = NilData /\ h.statusCode = StatusNotFound /\ h.err.kind = "APIError"}

MwNext ==
    \/ \E key \in Keys, next \in NextHandlers : MwServe(key, next)
    \/ MwTick

MwSpec == MwInit /\ [][MwNext]_vars

\* goroutines calling allow on one key at the same time, one atomic operation
\* at a step
Goroutines == {1, 2}
HotKey == "k1"

LimiterInit ==
    /\ clock = StartTime
    /\ limiter \in {NewRateLimiter(r, c) : r \in 0..MaxRate, c \in 1..MaxCapacity}
    /\ buckets = EmptyMap
    /\ apc = [g \in Goroutines |-> AllowIdle]
    /\ alog = <<>>
    /\ LaterIdle
    /\ outcome = NoOutcome
    /\ nodes = <<>>
    /\ RouterIdle
    /\ TreeIdle

\* allow is entered: now := time.Now().UnixNano()
AllowStart(g) ==
    /\ apc[g].pc = "idle"
    /\ Len(alog) + Cardinality({h \in Goroutines : apc[h].pc # "idle"}) < MaxAttempts
    /\ apc' = [apc EXCEPT ![g] = AllowEntry(HotKey, clock)]
    /\ UNCHANGED <<clock, limiter, buckets, alog, otherVars>>

\* the next atomic operation of goroutine g's allow; its last one returns
AllowStep(g) ==
    /\ apc[g].pc \notin {"idle", "done"}
    /\ buckets' = allowStep(limiter, buckets, apc[g]).bk
    /\ IF allowStep(limiter, buckets, apc[g]).a.pc = "done"
       THEN /\ apc' = [apc EXCEPT ![g] = AllowIdle]
            /\ alog' = Append(alog, LogEntry(allowStep(limiter, buckets, apc[g]).a,
                                             allowStep(limiter, buckets, apc[g]).bk,
                                             clock))
       ELSE /\ apc' = [apc EXCEPT ![g] = allowStep(limiter, buckets, apc[g]).a]
            /\ alog' = alog
    /\ UNCHANGED <<clock, limiter, otherVars>>

LimiterNext ==
    \/ \E g \in Goroutines : AllowStart(g)
    \/ \E g \in Goroutines : AllowStep(g)
    \/ Tick

LimiterSpec == LimiterInit /\ [][LimiterNext]_vars

-----------------------------------------------------------------------------
(* Shutdown.  RateLimitWithRouter makes a limiter, whose reaper goroutine     *)
(* starts with it, and registers limiter.Close with the router; Shutdown      *)
(* copies Router.cleanupFuncs under the mutex and calls each.  Close runs     *)
(* close(done) inside closeOnce.Do: sync.Once is its done flag and its mutex. *)
(* The reaper selects between its ticker and done.  The clock counts whole    *)
(* cleanup intervals here, and the ticker's phase is not tracked: the reaper  *)
(* may find a tick waiting whenever it selects                                *)

MaxCalls == 2
CleanupInterval == 1

Threads == {1, 2}

\* the goroutine that shuts the router down
ShutdownThreads == {1}
Limiters == {"rl1", "rl2"}

\* a cleanup that is not a limiter's Close
UserCleanup == "user"

\* every limiter of this part is made with rate 1 and capacity 1
LifeLimiter == NewRateLimiter(1, 1)

\* a limiter that has not been made
NoLimiter ==
    [made |-> FALSE, done |-> 0, onceDone |-> FALSE, onceM |-> 0,
     reaper |-> "none", bk |-> EmptyMap]

\* NewRateLimiter: done is open and the reaper runs
StartedLimiter ==
    [made |-> TRUE, done |-> 0, onceDone |-> FALSE, onceM |-> 0,
     reaper |-> "running", bk |-> EmptyMap]

IdleThread ==
    [pc |-> "idle", todo |-> <<>>, snap |-> {}, cl |-> "", inShutdown |-> FALSE,
     second |-> FALSE]

LifeStart ==
    [calls |-> 0, shutdowns |-> 0, shut |-> {}, invoked |-> {},
     reinvoked |-> FALSE, closeRet |-> [l \in Limiters |-> 0]]

NoAllow == [done |-> FALSE]

LifeInit ==
    /\ clock = StartTime
    /\ limiter = <<>>
    /\ buckets = <<>>
    /\ apc = <<>>
    /\ alog = <<>>
    /\ MwIdle
    /\ AfterLifeIdle
    /\ cleanupFuncs = <<>>
    /\ rls = [l \in Limiters |-> NoLimiter]
    /\ th = [t \in Threads |-> IdleThread]
    /\ life = LifeStart
    /\ lastAllow = NoAllow
    /\ outcome = NoOutcome
    /\ nodes = <<>>
    /\ RouterIdle
    /\ TreeIdle

lifeOther ==
    <<nodes, routerVars, treeVars, outcome, limiter, buckets, apc, alog, mwVars,
      poolVars, restVars>>

\* RateLimitWithRouter(router, rate, burst): the limiter is made and its Close
\* is registered
RateLimitWithRouter(l) ==
    /\ ~rls[l].made
    /\ rls' = [rls EXCEPT ![l] = StartedLimiter]
    /\ cleanupFuncs' = Append(cleanupFuncs, l)
    /\ UNCHANGED <<clock, th, life, lastAllow, lifeOther>>

\* RateLimit(rate, burst): the limiter is made, the router is not told
RateLimitNoRouter(l) ==
    /\ ~rls[l].made
    /\ rls' = [rls EXCEPT ![l] = StartedLimiter]
    /\ UNCHANGED <<clock, cleanupFuncs, th, life, lastAllow, lifeOther>>

\* Router.RegisterCleanup(cleanup), for a cleanup not registered before
RegisterCleanup(c) ==
    /\ \A i \in 1..Len(cleanupFuncs) : cleanupFuncs[i] # c
    /\ cleanupFuncs' = Append(cleanupFuncs, c)
    /\ UNCHANGED <<clock, rls, th, life, lastAllow, lifeOther>>

\* Router.Shutdown is entered: the registered cleanups are copied under r.mu
ShutdownCopy(t) ==
    /\ th[t].pc = "idle"
    /\ life.calls < MaxCalls
    /\ th' = [th EXCEPT ![t] =
                 [pc |-> "cleanups", todo |-> cleanupFuncs,
                  snap |-> {cleanupFuncs[i] : i \in 1..Len(cleanupFuncs)} \cap Limiters,
                  cl |-> "", inShutdown |-> TRUE, second |-> life.shutdowns >= 1]]
    /\ life' = [life EXCEPT !.calls = @ + 1]
    /\ UNCHANGED <<clock, cleanupFuncs, rls, lastAllow, lifeOther>>

\* Router.Shutdown calls the next cleanup of its copy: a limiter's Close is
\* entered, any other cleanup runs
ShutdownCleanup(t) ==
    /\ th[t].pc = "cleanups"
    /\ th[t].todo # <<>>
    /\ th' = [th EXCEPT ![t].todo = Tail(@),
                        ![t].cl = IF Head(th[t].todo) = UserCleanup THEN ""
                                  ELSE Head(th[t].todo),
                        ![t].pc = IF Head(th[t].todo) = UserCleanup THEN "cleanups"
                                  ELSE "closeFast"]
    /\ life' = [life EXCEPT
                   !.invoked = @ \cup {Head(th[t].todo)},
                   !.reinvoked = @ \/ (th[t].second /\ Head(th[t].todo) \in life.invoked)]
    /\ UNCHANGED <<clock, cleanupFuncs, rls, lastAllow, lifeOther>>

\* Router.Shutdown returns
ShutdownReturn(t) ==
    /\ th[t].pc = "cleanups"
    /\ th[t].todo = <<>>
    /\ th' = [th EXCEPT ![t] = IdleThread]
    /\ life' = [life EXCEPT !.shutdowns = @ + 1, !.shut = @ \cup th[t].snap]
    /\ UNCHANGED <<clock, cleanupFuncs, rls, lastAllow, lifeOther>>

\* limiter.Close() called by the application
Close(t, l) ==
    /\ th[t].pc = "idle"
    /\ life.calls < MaxCalls
    /\ rls[l].made
    /\ th' = [th EXCEPT ![t] = [IdleThread EXCEPT !.pc = "closeFast", !.cl = l]]
    /\ life' = [life EXCEPT !.calls = @ + 1]
    /\ UNCHANGED <<clock, cleanupFuncs, rls, lastAllow, lifeOther>>

\* the goroutine after its Close has returned
CloseReturn(thr) ==
    IF thr.inShutdown THEN [thr EXCEPT !.pc = "cleanups", !.cl = ""] ELSE IdleThread

\* closeOnce.Do: the done flag is loaded; set, Do returns at once
OnceFast(t) ==
    /\ th[t].pc = "closeFast"
    /\ IF rls[th[t].cl].onceDone
       THEN /\ th' = [th EXCEPT ![t] = CloseReturn(@)]
            /\ life' = [life EXCEPT !.closeRet[th[t].cl] = Min(@ + 1, 2)]
       ELSE /\ th' = [th EXCEPT ![t].pc = "closeLock"]
            /\ life' = life
    /\ UNCHANGED <<clock, cleanupFuncs, rls, lastAllow, lifeOther>>

\* closeOnce.Do: the Once's mutex is taken
OnceLock(t) ==
    /\ th[t].pc = "closeLock"
    /\ rls[th[t].cl].onceM = 0
    /\ rls' = [rls EXCEPT ![th[t].cl].onceM = t]
    /\ th' = [th EXCEPT ![t].pc = "closeSlow"]
    /\ UNCHANGED <<clock, cleanupFuncs, life, lastAllow, lifeOther>>

\* fault: the function runs in every Do
doSlowRunsAlways(r) == TRUE

\* closeOnce.Do under its mutex: the function runs when the flag is still unset
doSlowRuns(r) == ~r.onceDone

\* fault: Close sets the flag and leaves done open
doSlowNoClose(r) == [r EXCEPT !.onceDone = TRUE, !.onceM = 0]

\* closeOnce.Do under its mutex, to its unlock: close(rl.done) runs or not
doSlow(r) ==
    IF doSlowRuns(r)
    THEN [r EXCEPT !.done = @ + 1, !.onceDone = TRUE, !.onceM = 0]
    ELSE [r EXCEPT !.onceM = 0]

OnceSlow(t) ==
    /\ th[t].pc = "closeSlow"
    /\ rls' = [rls EXCEPT ![th[t].cl] = doSlow(@)]
    /\ th' = [th EXCEPT ![t] = CloseReturn(@)]
    /\ life' = [life EXCEPT !.closeRet[th[t].cl] = Min(@ + 1, 2)]
    /\ UNCHANGED <<clock, cleanupFuncs, lastAllow, lifeOther>>

\* the buckets a sweep at now keeps
Sweep(bk, now) ==
    [k \in {x \in DOMAIN bk : ~(bk[x].lastSeen < now - CleanupInterval)} |-> bk[k]]

\* cleanupLoop, case <-ticker.C
ReaperSweep(l) ==
    /\ rls[l].reaper = "running"
    /\ rls' = [rls EXCEPT ![l].bk = Sweep(@, clock)]
    /\ UNCHANGED <<clock, cleanupFuncs, th, life, lastAllow, lifeOther>>

\* cleanupLoop, case <-rl.done
ReaperStop(l) ==
    /\ rls[l].reaper = "running"
    /\ rls[l].done >= 1
    /\ rls' = [rls EXCEPT ![l].reaper = "stopped"]
    /\ UNCHANGED <<clock, cleanupFuncs, th, life, lastAllow, lifeOther>>

\* what is kept of an allow call: the limiter and the answer
AllowCall(l, a) == [done |-> TRUE, l |-> l, ok |-> a.ok]

\* limiter.allow(key), start to return
LifeAllow(l, key) ==
    /\ rls[l].made
    /\ rls' = [rls EXCEPT ![l].bk = allow(LifeLimiter, @, key, clock).bk]
    /\ lastAllow' = AllowCall(l, allow(LifeLimiter, rls[l].bk, key, clock).a)
    /\ UNCHANGED <<clock, cleanupFuncs, th, life, lifeOther>>

\* a cleanup interval passes
LifeTick ==
    /\ clock < StartTime + MaxElapsed
    /\ clock' = clock + 1
    /\ UNCHANGED <<cleanupFuncs, rls, th, life, lastAllow, lifeOther>>

\* limiters attached to a router, and the router shut down; the requests are
\* for the routes behind the first limiter
LifeNext ==
    \/ \E l \in Limiters : RateLimitWithRouter(l)
    \/ \E l \in Limiters : RateLimitNoRouter(l)
    \/ RegisterCleanup(UserCleanup)
    \/ \E t \in ShutdownThreads : ShutdownCopy(t)
    \/ \E t \in ShutdownThreads : ShutdownCleanup(t)
    \/ \E t \in ShutdownThreads : ShutdownReturn(t)
    \/ \E t \in ShutdownThreads : OnceFast(t)
    \/ \E t \in ShutdownThreads : OnceLock(t)
    \/ \E t \in ShutdownThreads : OnceSlow(t)
    \/ \E l \in Limiters : ReaperSweep(l)
    \/ \E l \in Limiters : ReaperStop(l)
    \/ LifeAllow("rl1", HotKey)
    \/ LifeTick

LifeSpec == LifeInit /\ [][LifeNext]_vars

\* one limiter, closed by the application from several goroutines
CloseNext ==
    \/ RateLimitNoRouter("rl1")
    \/ \E t \in Threads : Close(t, "rl1")
    \/ \E t \in Threads : OnceFast(t)
    \/ \E t \in Threads : OnceLock(t)
    \/ \E t \in Threads : OnceSlow(t)
    \/ ReaperSweep("rl1")
    \/ ReaperStop("rl1")
    \/ LifeAllow("rl1", HotKey)
    \/ LifeTick

CloseSpec == LifeInit /\ [][CloseNext]_vars

\* the reaper is a goroutine of its own and its select takes a ready case:
\* once done is closed the case <-rl.done stays ready until it is taken
FairLifeSpec == LifeSpec /\ \A l \in Limiters : WF_vars(ReaperStop(l))

-----------------------------------------------------------------------------
(* allow calls and reaper sweeps interleaved.  A bucket is an object that an  *)
(* allow call holds a pointer to from LoadOrStore on, also after a sweep has   *)
(* deleted it from the map: buckets.heap holds the bucket objects, buckets.map *)
(* the sync.Map from key to bucket, buckets.ptr each goroutine's pointer b,    *)
(* buckets.stale the keys the reaper has found stale and not yet deleted       *)

MaxSweepCalls == 3

NoBuckets ==
    [heap |-> <<>>, map |-> EmptyMap, ptr |-> [g \in Goroutines |-> Nil], stale |-> {}]

\* a limiter without tokens, one with a single token and one with the most
SweepLimiters ==
    {NewRateLimiter(0, 0), NewRateLimiter(MaxRate, 1), NewRateLimiter(MaxRate, MaxCapacity)}

SweepInit ==
    /\ clock = StartTime
    /\ limiter \in SweepLimiters
    /\ buckets = NoBuckets
    /\ apc = [g \in Goroutines |-> AllowIdle]
    /\ alog = <<>>
    /\ LaterIdle
    /\ outcome = NoOutcome
    /\ nodes = <<>>
    /\ RouterIdle
    /\ TreeIdle

\* the sync.Map as allow and the reaper read it: key to bucket value
BucketMap(b) == [k \in DOMAIN b.map |-> b.heap[b.map[k]]]

\* the bucket goroutine g's next operation is on, under its key: the one the
\* map holds at LoadOrStore, the one b points to afterwards
BucketOf(b, g, a) ==
    IF a.pc = "loadOrStore" THEN BucketMap(b)
    ELSE MapPut(EmptyMap, a.key, b.heap[b.ptr[g]])

\* the pointer b of goroutine g after its next operation
PointerOf(b, g, a) ==
    IF a.pc # "loadOrStore" THEN b.ptr[g]
    ELSE IF a.key \in DOMAIN b.map THEN b.map[a.key]
    ELSE Len(b.heap) + 1

\* the buckets after goroutine g's operation left its bucket as value v
BucketsAfter(b, g, a, v) ==
    [heap |-> IF PointerOf(b, g, a) > Len(b.heap) THEN Append(b.heap, v)
              ELSE [b.heap EXCEPT ![PointerOf(b, g, a)] = v],
     map |-> IF a.pc = "loadOrStore" THEN MapPut(b.map, a.key, PointerOf(b, g, a))
             ELSE b.map,
     ptr |-> [b.ptr EXCEPT ![g] = PointerOf(b, g, a)],
     stale |-> b.stale]

\* what is kept of a returned call: its answer, whether it made the bucket,
\* and the tokens it found: those of a new bucket for the call that made it,
\* newTokens of its last pass of the CAS loop otherwise
SweepLog(rl, a, before) ==
    [ok |-> a.ok, created |-> before.pc = "storeLastSeen",
     avail |-> IF before.pc = "storeLastSeen" THEN InitialTokens(rl) + 1
               ELSE NewTokens(rl, before)]

\* allow is entered: now := time.Now().UnixNano()
SweepAllowStart(g) ==
    /\ apc[g].pc = "idle"
    /\ Len(alog) + Cardinality({h \in Goroutines : apc[h].pc # "idle"}) < MaxSweepCalls
    /\ apc' = [apc EXCEPT ![g] = AllowEntry(HotKey, clock)]
    /\ UNCHANGED <<clock, limiter, buckets, alog, otherVars>>

\* the next atomic operation of goroutine g's allow; its last one returns
SweepAllowStep(g) ==
    /\ apc[g].pc \notin {"idle", "done"}
    /\ buckets' = BucketsAfter(buckets, g, apc[g],
                     allowStep(limiter, BucketOf(buckets, g, apc[g]), apc[g]).bk[HotKey])
    /\ IF allowStep(limiter, BucketOf(buckets, g, apc[g]), apc[g]).a.pc = "done"
       THEN /\ apc' = [apc EXCEPT ![g] = AllowIdle]
            /\ alog' = Append(alog,
                          SweepLog(limiter,
                                   allowStep(limiter, BucketOf(buckets, g, apc[g]),
                                             apc[g]).a,
                                   apc[g]))
       ELSE /\ apc' = [apc EXCEPT ![g] =
                          allowStep(limiter, BucketOf(buckets, g, apc[g]), apc[g]).a]
            /\ alog' = alog
    /\ UNCHANGED <<clock, limiter, otherVars>>

\* cleanupLoop, case <-ticker.C: the callback of Range loads lastSeen of a
\* bucket and finds it stale
SweepReaperLoad ==
    /\ buckets.stale = {}
    /\ DOMAIN buckets.map # DOMAIN Sweep(BucketMap(buckets), clock)
    /\ buckets' = [buckets EXCEPT
                      !.stale = DOMAIN buckets.map
                                   \ DOMAIN Sweep(BucketMap(buckets), clock)]
    /\ UNCHANGED <<clock, limiter, apc, alog, otherVars>>

\* rl.buckets.Delete(key) of the bucket found stale
SweepReaperDelete ==
    /\ buckets.stale # {}
    /\ buckets' = [buckets EXCEPT !.map = [k \in DOMAIN @ \ buckets.stale |-> @[k]],
                                  !.stale = {}]
    /\ UNCHANGED <<clock, limiter, apc, alog, otherVars>>

SweepNext ==
    \/ \E g \in Goroutines : SweepAllowStart(g)
    \/ \E g \in Goroutines : SweepAllowStep(g)
    \/ SweepReaperLoad
    \/ SweepReaperDelete
    \/ Tick

SweepSpec == SweepInit /\ [][SweepNext]_vars

\* The calls and the reaper at one instant on the limiter with the most
\* tokens.  Every allow call runs on a goroutine of its own, and the scheduler runs a runnable
\* goroutine again after finitely many steps of the others
RetryInit == SweepInit /\ limiter = NewRateLimiter(MaxRate, MaxCapacity)

RetryNext ==
    \/ \E g \in Goroutines : SweepAllowStart(g)
    \/ \E g \in Goroutines : SweepAllowStep(g)
    \/ SweepReaperLoad
    \/ SweepReaperDelete

RetrySpec ==
    RetryInit /\ [][RetryNext]_vars /\ \A g \in Goroutines : WF_vars(SweepAllowStep(g))

-----------------------------------------------------------------------------
(* One goroutine calling allow on a clock that counts nanoseconds: calls at *)
(* the same instant and after waits of a few, of 100 and of 200 milliseconds *)

\* limiters whose clock counts nanoseconds
RefillLimiters ==
    {[rate |-> 10, capacity |-> 1, second |-> Second],
     [rate |-> 10, capacity |-> 3, second |-> Second],
     [rate |-> 625, capacity |-> 3, second |-> Second]}

\* the instants of the calls, in nanoseconds after the start
RefillInstants ==
    {4800 * Thousand, 100 * Thousand * Thousand, 200 * Thousand * Thousand,
     204800 * Thousand}

RefillInit ==
    /\ clock = StartTime
    /\ limiter \in RefillLimiters
    /\ buckets = EmptyMap
    /\ apc = <<>>
    /\ alog = <<>>
    /\ LaterIdle
    /\ outcome = NoOutcome
    /\ nodes = <<>>
    /\ RouterIdle
    /\ TreeIdle

\* time passes until instant t
Sleep(t) ==
    /\ clock < StartTime + t
    /\ clock' = StartTime + t
    /\ UNCHANGED <<limiter, buckets, apc, alog, otherVars>>

RefillNext ==
    \/ Allow(HotKey)
    \/ \E t \in RefillInstants : Sleep(t)

RefillSpec == RefillInit /\ [][RefillNext]_vars

\* The router's calls one at a time, with Use also called with no middleware at all and with
\* RegisterCleanup among the writes
UseMiddleware == GlobalMiddleware \cup {<<>>}

GenNext ==
    \/ \E mw \in UseMiddleware : Use(mw)
    \/ \E reg \in Registrations : AddRoute(reg[1], reg[2], reg[3])
    \/ NotFound
    \/ RegisterCleanup(UserCleanup)
    \/ \E m \in ReqMethods, p \in ReqPaths : ServeHTTP(m, p)

GenSpec == Init /\ [][GenNext]_vars

-----------------------------------------------------------------------------
(* The pooled Context.  ServeHTTP takes a Context from contextPool, binds the *)
(* request, dispatches, and its deferred Release resets the Context and puts  *)
(* it back.  A handler wrapped by the Timeout middleware runs in a goroutine  *)
(* of its own, and the middleware returns at the deadline whether or not      *)
(* that goroutine has finished.  A request is its number; what it carries in  *)
(* its path and its query is its tag                                          *)

MaxRequests == 3
MaxContexts == 2
SmallMap == 8

Servers == {1, 2}

ReqTags == <<"r1", "r2", "r3", "r4", "r5">>
Tag(r) == ReqTags[r]

\* a nil map, and make(map, 8)
NilMap == [nil |-> TRUE, m |-> EmptyMap]
MakeMap == [nil |-> FALSE, m |-> EmptyMap]

\* contextPool.New
PoolNew ==
    [Writer |-> 0, Request |-> 0, PathParams |-> NilMap, queryCache |-> NilMap,
     values |-> NilMap]

\* what reset leaves of a map: nil stays nil, a large map is replaced, a small
\* one is cleared
resetMap(mp) ==
    IF mp.nil THEN NilMap
    ELSE IF Cardinality(DOMAIN mp.m) > SmallMap THEN MakeMap
    ELSE [mp EXCEPT !.m = EmptyMap]

\* Context.reset
reset(c) ==
    [Writer |-> 0, Request |-> 0, PathParams |-> resetMap(c.PathParams),
     queryCache |-> NilMap, values |-> resetMap(c.values)]

\* Context.Param
Param(c, name) ==
    IF c.PathParams.nil THEN ""
    ELSE IF name \in DOMAIN c.PathParams.m THEN c.PathParams.m[name] ELSE ""

\* Context.Get
Get(c, key) ==
    IF c.values.nil THEN [value |-> "", exists |-> FALSE]
    ELSE IF key \in DOMAIN c.values.m
    THEN [value |-> c.values.m[key], exists |-> TRUE]
    ELSE [value |-> "", exists |-> FALSE]

\* Context.Set
Set(c, key, value) ==
    [c EXCEPT !.values = [nil |-> FALSE,
                          m |-> MapPut(IF c.values.nil THEN EmptyMap ELSE c.values.m,
                                       key, value)]]

\* request r's URL.Query()
URLQuery(r) == [nil |-> FALSE, m |-> MapPut(EmptyMap, "q", Tag(r))]

\* Context.Query: the Context after it (the cache is filled) and the value.
\* On a Context whose Request is nil the call panics
Query(c, name) ==
    IF ~c.queryCache.nil
    THEN [c |-> c, panic |-> FALSE,
          value |-> IF name \in DOMAIN c.queryCache.m THEN c.queryCache.m[name] ELSE ""]
    ELSE IF c.Request = 0
    THEN [c |-> c, panic |-> TRUE, value |-> ""]
    ELSE [c |-> [c EXCEPT !.queryCache = URLQuery(c.Request)], panic |-> FALSE,
          value |-> IF name \in DOMAIN URLQuery(c.Request).m
                    THEN URLQuery(c.Request).m[name] ELSE ""]

\* the handler of request r: it stores under "k" what it found in the request
\* and then reads the query parameter "q"
HandlerOps == <<"Set", "Query">>

\* one call of the handler of request r on the Context
ApplyOp(c, op, r) ==
    IF op = "Set" THEN Set(c, "k", Tag(r)) ELSE Query(c, "q").c

RECURSIVE ApplyOps(_, _, _)
ApplyOps(c, ops, r) ==
    IF ops = <<>> THEN c ELSE ApplyOps(ApplyOp(c, Head(ops), r), Tail(ops), r)

IdleServer == [pc |-> "idle", ctx |-> 0, req |-> 0, param |-> FALSE, wrapped |-> FALSE]

PoolInit ==
    /\ LimiterIdle
    /\ RestIdle
    /\ MwIdle
    /\ LifeIdle
    /\ ctxs = <<>>
    /\ pool = {}
    /\ srv = [s \in Servers |-> IdleServer]
    /\ bg = {}
    /\ served = 0
    /\ misuse = FALSE
    /\ outcome = NoOutcome
    /\ nodes = <<>>
    /\ RouterIdle
    /\ TreeIdle

poolOther ==
    <<nodes, routerVars, treeVars, outcome, limiterVars, mwVars, lifeVars, restVars>>

\* the goroutines that hold Context c for a request: ServeHTTP calls that have
\* taken it and not yet released it
Holders(c) == {s \in Servers : srv[s].pc # "idle" /\ srv[s].ctx = c}

\* ServeHTTP has not yet released the Context of request r
Serving(r) == \E s \in Servers : srv[s].pc # "idle" /\ srv[s].req = r

\* ServeHTTP is entered: NewContext takes Context c, one of the pool or one
\* contextPool.New makes, and binds the request.  The route asked for has a
\* parameter or not and its chain has the Timeout middleware or not
ServeStart(s, c, param, wrapped) ==
    /\ srv[s].pc = "idle"
    /\ served < MaxRequests
    /\ c \in pool \/ c = Len(ctxs) + 1
    /\ ctxs' = IF c \in pool
               THEN [ctxs EXCEPT ![c].Writer = served + 1, ![c].Request = served + 1]
               ELSE Append(ctxs, [PoolNew EXCEPT !.Writer = served + 1,
                                                 !.Request = served + 1])
    /\ pool' = pool \ {c}
    /\ srv' = [srv EXCEPT ![s] = [pc |-> "started", ctx |-> c, req |-> served + 1,
                                  param |-> param, wrapped |-> wrapped]]
    /\ served' = served + 1
    /\ UNCHANGED <<bg, misuse, poolOther>>

\* the Context after routing: a route with a parameter gets the map that
\* tree.search made
Routed(c, param, r) ==
    IF param
    THEN [c EXCEPT !.PathParams = [nil |-> FALSE, m |-> MapPut(EmptyMap, "id", Tag(r))]]
    ELSE c

\* the route is found and its chain is called: a plain handler runs to its
\* end, the Timeout middleware starts the handler in a goroutine and waits
CallChain(s) ==
    /\ srv[s].pc = "started"
    /\ IF srv[s].wrapped
       THEN /\ ctxs' = [ctxs EXCEPT ![srv[s].ctx] = Routed(@, srv[s].param, srv[s].req)]
            /\ bg' = bg \cup {[req |-> srv[s].req, ctx |-> srv[s].ctx,
                               ops |-> HandlerOps]}
            /\ srv' = [srv EXCEPT ![s].pc = "waiting"]
       ELSE /\ ctxs' = [ctxs EXCEPT ![srv[s].ctx] =
                           ApplyOps(Routed(@, srv[s].param, srv[s].req),
                                    HandlerOps, srv[s].req)]
            /\ bg' = bg
            /\ srv' = [srv EXCEPT ![s].pc = "handled"]
    /\ UNCHANGED <<pool, served, misuse, poolOther>>

\* the handler goroutines left once g has made its next call on the Context:
\* one that has nothing left to do and nobody to report to is gone
AfterStep(g) ==
    IF Len(g.ops) = 1 /\ ~Serving(g.req)
    THEN bg \ {g}
    ELSE (bg \ {g}) \cup {[g EXCEPT !.ops = Tail(@)]}

\* the goroutine the Timeout middleware started for request r
Goroutine(r) == CHOOSE g \in bg : g.req = r

\* the goroutine the Timeout middleware started for request r makes the
\* handler's next call on the Context it was given
HandlerStep(r) ==
    /\ \E g \in bg : g.req = r /\ g.ops # <<>>
    /\ ctxs' = [ctxs EXCEPT ![Goroutine(r).ctx] = ApplyOp(@, Head(Goroutine(r).ops), r)]
    /\ bg' = AfterStep(Goroutine(r))
    /\ misuse' = (misuse \/ ~Serving(r))
    /\ UNCHANGED <<pool, srv, served, poolOther>>

\* Timeout: case res := <-resultChan
TimeoutResult(s) ==
    /\ srv[s].pc = "waiting"
    /\ \E g \in bg : g.req = srv[s].req /\ g.ops = <<>>
    /\ bg' = {g \in bg : g.req # srv[s].req}
    /\ srv' = [srv EXCEPT ![s].pc = "handled"]
    /\ UNCHANGED <<ctxs, pool, served, misuse, poolOther>>

\* Timeout: case <-timeoutCtx.Done()
TimeoutDeadline(s) ==
    /\ srv[s].pc = "waiting"
    /\ bg' = {g \in bg : g.req # srv[s].req \/ g.ops # <<>>}
    /\ srv' = [srv EXCEPT ![s].pc = "handled"]
    /\ UNCHANGED <<ctxs, pool, served, misuse, poolOther>>

\* the response is written and ServeHTTP returns: ctx.Release()
Release(s) ==
    /\ srv[s].pc = "handled"
    /\ ctxs' = [ctxs EXCEPT ![srv[s].ctx] = reset(@)]
    /\ pool' = pool \cup {srv[s].ctx}
    /\ srv' = [srv EXCEPT ![s] = IdleServer]
    /\ UNCHANGED <<bg, served, misuse, poolOther>>

PoolNext ==
    \/ \E s \in Servers, c \in 1..MaxContexts, param \in BOOLEAN, wrapped \in BOOLEAN :
          ServeStart(s, c, param, wrapped)
    \/ \E s \in Servers : CallChain(s)
    \/ \E r \in 1..MaxRequests : HandlerStep(r)
    \/ \E s \in Servers : TimeoutResult(s)
    \/ \E s \in Servers : TimeoutDeadline(s)
    \/ \E s \in Servers : Release(s)

PoolSpec == PoolInit /\ [][PoolNext]_vars

\* Release on its own: one request has been handled and its Context holds maps
\* of every size up to one more than the size reset keeps
MaxEntries == 9

\* a nil map or a map with k entries
SizedMaps == {NilMap} \cup {[nil |-> FALSE, m |-> [i \in 1..k |-> "v"]] : k \in 0..MaxEntries}

ResetInit ==
    /\ LimiterIdle
    /\ RestIdle
    /\ MwIdle
    /\ LifeIdle
    /\ \E pp \in SizedMaps, vs \in SizedMaps, qc \in {NilMap, URLQuery(1)} :
          ctxs = <<[Writer |-> 1, Request |-> 1, PathParams |-> pp, queryCache |-> qc,
                    values |-> vs]>>
    /\ pool = {}
    /\ srv = [s \in Servers |->
                 IF s = 1 THEN [pc |-> "handled", ctx |-> 1, req |-> 1,
                                param |-> TRUE, wrapped |-> FALSE]
                 ELSE IdleServer]
    /\ bg = {}
    /\ served = 1
    /\ misuse = FALSE
    /\ outcome = NoOutcome
    /\ nodes = <<>>
    /\ RouterIdle
    /\ TreeIdle

ResetNext == \E s \in Servers : Release(s)

ResetSpec == ResetInit /\ [][ResetNext]_vars

-----------------------------------------------------------------------------
(* What the route pattern grammar says: segments separated by '/', a ':name' *)
(* segment matches any one segment, every other segment matches literally    *)

PatternMatches(pattern, path) ==
    LET ps == Split(pattern)
        qs == Split(path)
    IN  /\ Len(ps) = Len(qs)
        /\ \A i \in 1..Len(ps) : IsParamSeg(ps[i]) \/ ps[i] = qs[i]

\* the user routes registered so far (the synthetic 404 routes have no method)
Registered == {r \in 1..Len(routes) : routes[r].method # ""}

\* the handler of the last NotFound call, or the default 404 handler
CurrentNotFound ==
    LET nf == {r \in 1..Len(routes) : routes[r].method = ""}
    IN  routes[CHOOSE r \in nf : \A q \in nf : q <= r].handler

\* entering ms[1], ms[2], ..., running handler h, then leaving in reverse order
ExpectedTrace(ms, h) ==
    [i \in 1..(2 * Len(ms) + 1) |->
        IF i <= Len(ms) THEN [ev |-> "enter", who |-> ms[i]]
        ELSE IF i = Len(ms) + 1 THEN [ev |-> "handle", who |-> h]
        ELSE [ev |-> "leave", who |-> ms[2 * Len(ms) + 2 - i]]]

\* C1: a dispatch to a registered route enters the global middleware in Use order,
\* then the route's middleware in AddRoute order, then the handler, and leaves
\* them in the reverse order, whatever the order of the Use and AddRoute calls
C1_ChainOrder ==
    (resp.done /\ resp.kind # "notfound")
        => resp.trace = ExpectedTrace(used \o routes[resp.route].middlewares,
                                      routes[resp.route].handler)

\* a route with middleware [C, D], registered before both Use calls, is dispatched
\* under globals [A, B]
C1_Witness ==
    /\ resp.done
    /\ resp.kind # "notfound"
    /\ resp.route = 2
    /\ used = <<"A", "B">>
    /\ routes[2].middlewares = <<"C", "D">>

\* C2: when a static and a parameterized pattern of the request's method both
\* match the path, the dispatch runs the static route's handler
C2_StaticBeatsParam ==
    \A s, q \in Registered :
        ( /\ resp.done
          /\ routes[s].method = resp.method
          /\ routes[q].method = resp.method
          /\ isStaticRoute(routes[s].pattern)
          /\ ~isStaticRoute(routes[q].pattern)
          /\ routes[s].pattern = resp.path
          /\ PatternMatches(routes[q].pattern, resp.path) )
        => /\ resp.kind # "notfound"
           /\ routes[resp.route].pattern = resp.path
           /\ \E i \in 1..Len(resp.trace) :
                 resp.trace[i] = [ev |-> "handle", who |-> routes[resp.route].handler]

\* /u/:i was registered first, /u/n second, and GET /u/n was dispatched
C2_Witness ==
    /\ resp.done
    /\ resp.method = MethodGET
    /\ resp.path = PUsersNew
    /\ Len(routes) >= 3
    /\ routes[2].method = MethodGET
    /\ routes[2].pattern = PUsersId
    /\ routes[3].method = MethodGET
    /\ routes[3].pattern = PUsersNew

\* C4: a dispatch whose (method, path) matches no registered route runs the
\* current 404 handler wrapped in all global middleware registered so far
C4_UnmatchedGoesTo404 ==
    ( /\ resp.done
      /\ \A r \in Registered :
            ~(routes[r].method = resp.method
              /\ PatternMatches(routes[r].pattern, resp.path)) )
        => /\ resp.kind = "notfound"
           /\ resp.trace = ExpectedTrace(used, CurrentNotFound)

\* what does hold of the 404 path: when the dispatcher finds no route, it runs
\* the current 404 handler wrapped in all global middleware registered so far
NotFoundChainWrapped ==
    (resp.done /\ resp.kind = "notfound")
        => resp.trace = ExpectedTrace(used, CurrentNotFound)

C5_LoadedTableComplete ==
    \A r \in Readers :
        /\ rpc[r] \in {"loaded", "done"} =>
              /\ rtab[r] \in 1..Len(tables)
              /\ \A w \in Writers : wpc[w] = "built" => rtab[r] # wnew[w]
              /\ \A req \in Requests :
                    ChainOf(tables[rtab[r]],
                            Resolve(tables[rtab[r]], emaps, nodes,
                                    req.method, req.path).route) # NilHandler
        /\ rpc[r] = "done" => resp[r].chain # NilHandler

\* a dispatch ran a registered route's chain while a writer had a new table
\* constructed but not yet stored
C5_Witness ==
    \E r \in Readers, w \in Writers :
        /\ rpc[r] = "done"
        /\ resp[r].kind = "tree"
        /\ wpc[w] = "built"

\* the effect of writer w's call is in table t
EffectIn(w, t) ==
    IF wop[w].op = "Use"
    THEN \E i \in 1..Len(t.middlewares) :
            SubSeq(t.middlewares, i, i + Len(wop[w].middleware) - 1)
                = wop[w].middleware
    ELSE IF wop[w].op = "NotFound"
    THEN t.notFoundRoute >= wop[w].route
    ELSE LET f == Resolve(t, emaps, nodes, wop[w].method, wop[w].path)
         IN  /\ f.kind # "notfound"
             /\ routes[f.route].method = wop[w].method
             /\ routes[f.route].pattern = wop[w].path

\* C6: once every concurrent call has returned, the current table holds every
\* registered route, the complete global middleware list and the last installed
\* 404 handler; and a dispatch that began after a call returned sees its effect
C6_NoLostWrites ==
    /\ (\A w \in Writers : wpc[w] = "done") =>
          /\ tables[cur].middlewares = used
          /\ routes[tables[cur].notFoundRoute].handler = CurrentNotFound
          /\ \A w \in Writers : EffectIn(w, tables[cur])
    /\ \A r \in Readers :
          rpc[r] = "done" => \A w \in rreq[r].after : EffectIn(w, tables[rtab[r]])

\* what does hold of the writers: no call's table is lost, whatever the
\* interleaving -- the lists, the 404 handler and every route's chain are there
WritesSerialized ==
    (\A w \in Writers : wpc[w] = "done") =>
        /\ tables[cur].middlewares = used
        /\ routes[tables[cur].notFoundRoute].handler = CurrentNotFound
        /\ tables[cur].gen = Len(used)
        /\ \A w \in Writers :
              wop[w].op = "AddRoute" => wop[w].route \in DOMAIN tables[cur].chains

\* C8: a dispatch that has begun completes although nothing is assumed of the
\* writers, it loads the table pointer exactly once, and no step of it touches
\* the mutex
C8_DispatchWaitFree ==
    /\ \A r \in Readers : (rpc[r] = "started") ~> (rpc[r] = "done")
    /\ [](\A r \in Readers : rpc[r] = "done" => rloads[r] = 1)
    /\ [][\A r \in Readers : rpc'[r] # rpc[r] => mu' = mu]_vars

\* a dispatch began and completed while one writer held the mutex throughout
C8_Witness ==
    \E r \in Readers :
        /\ rpc[r] = "done"
        /\ rloads[r] = 1
        /\ rreq[r].held # 0
        /\ mu = rreq[r].held
        /\ wpc[rreq[r].held] \in {"locked", "built", "stored"}

\* what executeHandler itself added to the writer
Written == SubSeq(outcome.ctx.writer, Len(outcome.before.writer) + 1,
                  Len(outcome.ctx.writer))

\* the three writer calls of a JSON response
JSONCalls(statusCode, bytes) ==
    <<[call |-> "Header.Set", status |-> 0,
       arg |-> <<"Content-Type", "application/json">>],
      [call |-> "WriteHeader", status |-> statusCode, arg |-> <<>>],
      [call |-> "Write", status |-> 0, arg |-> bytes] >>

ErrorEnvelope(code, message) ==
    <<"{", "error", ":", code, ",", "message", ":", message, "}">>

RegisteredFor(method) == {r \in Registered : routes[r].method = method}

\* C11: a dispatch is routed to a registered pattern only if the request has the
\* pattern's segments, static ones equal byte for byte; a request whose
\* segmentation differs from every registered pattern of its method runs the 404
\* chain
C11_SegmentsRespected ==
    resp.done =>
        /\ resp.kind # "notfound" =>
              PatternMatches(routes[resp.route].pattern, resp.path)
        /\ (\A r \in RegisteredFor(resp.method) :
                Len(Split(routes[r].pattern)) # Len(Split(resp.path)))
              => resp.kind = "notfound"

\* C12: with only /u registered for the method a request for /u/ runs the 404
\* chain, and with only /u/ registered a request for /u runs the 404 chain
C12_TrailingSlashSignificant ==
    resp.done =>
        /\ ( /\ RegisteredFor(resp.method) # {}
             /\ \A r \in RegisteredFor(resp.method) : routes[r].pattern = PUsers
             /\ resp.path = PUsersSlash ) => resp.kind = "notfound"
        /\ ( /\ RegisteredFor(resp.method) # {}
             /\ \A r \in RegisteredFor(resp.method) : routes[r].pattern = PUsersSlash
             /\ resp.path = PUsers ) => resp.kind = "notfound"

\* the returned calls on a key, in order
CallsOn(key) == SelectSeq(alog, LAMBDA e : e.key = key)

\* the calls on a key made at the second its bucket was made: they follow one
\* another with no time elapsing
BurstOn(key) ==
    SelectSeq(CallsOn(key), LAMBDA e : e.now = CallsOn(key)[1].now)

\* exactly the first capacity attempts of a burst are admitted, the first one
\* leaving tokens = capacity - 1
BurstAdmitsCapacity(key) ==
    CallsOn(key) # <<>> =>
        /\ \A i \in 1..Len(BurstOn(key)) :
              BurstOn(key)[i].ok <=> i <= limiter.capacity
        /\ BurstOn(key)[1].ok => BurstOn(key)[1].tokens = limiter.capacity - 1

AdmittedWithin(t1, t2) ==
    {i \in 1..Len(alog) : alog[i].ok /\ alog[i].now >= t1 /\ alog[i].ret <= t2}

\* C14: however concurrent allow calls on one key interleave, the admissions
\* within any window of T seconds number at most capacity + rate * T
C14_AdmissionsBounded ==
    \A t1 \in StartTime..(StartTime + MaxElapsed) :
        \A t2 \in t1..(StartTime + MaxElapsed) :
            Cardinality(AdmittedWithin(t1, t2))
                <= limiter.capacity + limiter.rate * (t2 - t1)

\* C15: a denied request gets (nil, 429, APIError rate_limit_exceeded) and the
\* wrapped handler is not invoked; an admitted request invokes the wrapped
\* handler exactly once and gets the triple that handler returned
C15_DenyOrPassThrough ==
    mwcall.done =>
        IF mwcall.admitted
        THEN /\ mwcall.ctx.calls = 1
             /\ mwcall.ctx = CallHandler(NewContext, mwcall.next).ctx
             /\ mwcall.data = mwcall.next.data
             /\ mwcall.statusCode = mwcall.next.statusCode
             /\ mwcall.err = mwcall.next.err
        ELSE /\ mwcall.ctx = NewContext
             /\ mwcall.data = NilData
             /\ mwcall.statusCode = StatusTooManyRequests
             /\ mwcall.err.kind = "APIError"
             /\ mwcall.err.code = "rate_limit_exceeded"

\* a denied request whose wrapped handler would have written a response
C15_Witness ==
    /\ mwcall.done
    /\ ~mwcall.admitted
    /\ mwcall.next.writes
    /\ mwcall.next.statusCode = StatusOK
    /\ limiter.capacity >= 1

\* an admitted request whose wrapped handler returns an error of its own
C15_WitnessAdmitted ==
    /\ mwcall.done
    /\ mwcall.admitted
    /\ mwcall.err.kind = "error"

\* C16: after a Shutdown has returned, the reaper of every limiter whose Close
\* was registered before that Shutdown began terminates, and a terminated
\* reaper deletes no bucket
C16_ReapersStop ==
    /\ \A l \in Limiters : (l \in life.shut) ~> (rls[l].reaper = "stopped")
    /\ [][\A l \in Limiters :
            rls[l].reaper = "stopped" => DOMAIN rls[l].bk \subseteq DOMAIN rls'[l].bk]_vars

\* both limiters were registered, Shutdown has returned, both reapers are gone
\* and a bucket made since is still there
C16_Witness ==
    /\ life.shut = Limiters
    /\ \A l \in Limiters : rls[l].reaper = "stopped"
    /\ \E l \in Limiters : HotKey \in DOMAIN rls[l].bk /\ lastAllow.done

\* C17: a Shutdown that begins after another has returned invokes no cleanup
\* that was invoked before
C17_SecondShutdownNoOp == ~life.reinvoked

\* what allow at now does to a key's bucket and answers: a new bucket admits
\* and holds capacity - 1; otherwise the refill is added up to capacity, a
\* token is taken when there is one, and lastSeen is now
AllowRule(bk, key, now, after, ok) ==
    IF key \notin DOMAIN bk
    THEN ok /\ after = [tokens |-> LifeLimiter.capacity - 1, lastSeen |-> now]
    ELSE LET t == Min(bk[key].tokens + (now - bk[key].lastSeen) * LifeLimiter.rate,
                      LifeLimiter.capacity)
         IN  /\ ok = (t > 0)
             /\ after.tokens = IF ok THEN t - 1 ELSE bk[key].tokens
             /\ after.lastSeen = now

\* a step that is an allow call on l
IsAllowOn(l) ==
    /\ lastAllow'.done
    /\ lastAllow'.l = l
    /\ HotKey \in DOMAIN rls'[l].bk
    /\ lastAllow' # lastAllow \/ rls'[l].bk # rls[l].bk

\* C18: however many Close calls are made on a limiter, one after another or
\* at once, done is closed once and by the time a call returns; allow on a
\* closed limiter follows the rules of an open one
C18_CloseIdempotent ==
    /\ [](\A l \in Limiters : rls[l].done <= 1)
    /\ [](\A l \in Limiters : life.closeRet[l] >= 1 => rls[l].done = 1)
    /\ [][\A l \in Limiters :
            (rls[l].done >= 1 /\ IsAllowOn(l)) =>
                AllowRule(rls[l].bk, HotKey, clock, rls'[l].bk[HotKey],
                          lastAllow'.ok)]_vars

\* two Close calls on one limiter have returned, and allow on it has since
\* denied a request
C18_Witness ==
    \E l \in Limiters :
        /\ life.closeRet[l] >= 2
        /\ lastAllow.done
        /\ lastAllow.l = l
        /\ ~lastAllow.ok

\* C19: when a request starts, the Context it was given shows nothing of an
\* earlier request: no path parameter, no stored value, and the query of the
\* request that starts
C19_FreshContext ==
    \A s \in Servers :
        srv[s].pc = "started" =>
            /\ Param(ctxs[srv[s].ctx], "id") = ""
            /\ ~Get(ctxs[srv[s].ctx], "k").exists
            /\ ~Query(ctxs[srv[s].ctx], "q").panic
            /\ Query(ctxs[srv[s].ctx], "q").value = Tag(srv[s].req)

\* C20: no handler goroutine touches a Context after the ServeHTTP call of its
\* request has released it, and no Context is held for two requests at once
C20_NoUseAfterRelease ==
    /\ ~misuse
    /\ \A c \in 1..Len(ctxs) : Cardinality(Holders(c)) <= 1
    /\ \A g \in bg : \A s \in Holders(g.ctx) : g.ops # <<>> => srv[s].req = g.req

\* C21: a route registered through the group is kept under the group's
\* prefix followed by its path, with the group's middleware followed by its
\* own, and its chain runs the globals, then those, then the handler
C21_GroupRoute ==
    \A r \in DOMAIN grp.regs :
        /\ SubSeq(routes[r].pattern, 1, Len(grp.prefix)) = grp.prefix
        /\ routes[r].middlewares = grp.regs[r].want
        /\ ChainOf(tables[cur], r) = used \o grp.regs[r].want \o <<routes[r].handler>>

\* the argument lists the two ways of calling Use are compared on
UseArgs22 == {<<>>, <<"A">>, <<"B", "A">>}

\* the table after Use(a) and then Use(b) on the current table
UseTwice22(a, b) ==
    UseBuild(routes, emaps, nodes,
             UseBuild(routes, emaps, nodes, tables[cur], a).table, b).table

\* the table after the single call Use(a, b) on the current table
UseOnce22(a, b) == UseBuild(routes, emaps, nodes, tables[cur], a \o b).table

\* C22: Use(A) followed by Use(B) gives every route and the 404 route the same
\* chain as the single call Use(A, B); the chains of the current table are
\* those one Use call with all the middleware used so far would have built
C22_UseTwiceIsUseOnce ==
    /\ \A a \in UseArgs22, b \in UseArgs22 :
          /\ UseTwice22(a, b).chains = UseOnce22(a, b).chains
          /\ UseTwice22(a, b).middlewares = UseOnce22(a, b).middlewares
    /\ \A r \in DOMAIN UseOnce22(<<>>, <<>>).chains :
          tables[cur].chains[r] =
             UseBuild(routes, emaps, nodes, [tables[cur] EXCEPT !.middlewares = <<>>],
                      used).table.chains[r]

\* two Use calls have been made on a router with a registered route
C22_Witness ==
    /\ used = <<"A", "B">>
    /\ \E r \in DOMAIN tables[cur].chains :
          /\ r # tables[cur].notFoundRoute
          /\ tables[cur].chains[r] = UseOnce22(<<>>, <<>>).chains[r]
          /\ SubSeq(tables[cur].chains[r], 1, 2) = <<"A", "B">>

\* the Routes of table t: those in its static maps and those in its trees
TableRoutes(t) == ExactRouteSet(emaps, t.exactRoutes) \cup TreeRouteSet(nodes, t.trees)

\* C23: in every published table each Route that is in a static map or can be
\* reached in a tree is a key of chains, and so is the table's 404 route
C23_ChainsCoverRoutes ==
    \A i \in 1..Len(tables) :
        /\ TableRoutes(tables[i]) \subseteq DOMAIN tables[i].chains
        /\ tables[i].notFoundRoute \in DOMAIN tables[i].chains
        /\ \A r \in TableRoutes(tables[i]) \cup {tables[i].notFoundRoute} :
              tables[i].chains[r] # NilHandler

\* a table with a static route, a parameter route and a custom 404 route
C23_Witness ==
    /\ tables[cur].notFoundRoute # 1
    /\ ExactRouteSet(emaps, tables[cur].exactRoutes) # {}
    /\ TreeRouteSet(nodes, tables[cur].trees)
          \ ExactRouteSet(emaps, tables[cur].exactRoutes) # {}
    /\ TableRoutes(tables[cur]) \cup {tables[cur].notFoundRoute}
          \subseteq DOMAIN tables[cur].chains

\* C24: the generation starts at 0 and never decreases; a write makes it one
\* larger exactly when the write changes the global middleware list, and
\* leaves it as it was otherwise (tables holds every table published, in the
\* order of the writes)
C24_Generation ==
    /\ tables[1].gen = 0
    /\ \A i \in 1..(Len(tables) - 1) :
          /\ tables[i + 1].gen \in {tables[i].gen, tables[i].gen + 1}
          /\ tables[i + 1].gen = tables[i].gen + 1
                <=> tables[i + 1].middlewares # tables[i].middlewares

\* table i + 1 was published by AddRoute or NotFound on table i (Use is the
\* only write that changes the generation)
RouteWrite25(i) == tables[i + 1].gen = tables[i].gen

\* C25: AddRoute and NotFound leave the global middleware list as it was, and
\* every route that has a chain in both tables has the same chain; AddRoute
\* keeps every chain and adds one, NotFound replaces the 404 route and its chain
C25_OnlyOwnChain ==
    \A i \in 1..(Len(tables) - 1) :
        RouteWrite25(i) =>
            /\ tables[i + 1].middlewares = tables[i].middlewares
            /\ \A r \in DOMAIN tables[i].chains \cap DOMAIN tables[i + 1].chains :
                  tables[i + 1].chains[r] = tables[i].chains[r]
            /\ Cardinality(DOMAIN tables[i + 1].chains \ DOMAIN tables[i].chains) = 1
            /\ IF tables[i + 1].notFoundRoute = tables[i].notFoundRoute
               THEN DOMAIN tables[i].chains \subseteq DOMAIN tables[i + 1].chains
               ELSE /\ DOMAIN tables[i].chains \ DOMAIN tables[i + 1].chains
                          = {tables[i].notFoundRoute}
                    /\ tables[i + 1].notFoundRoute \notin DOMAIN tables[i].chains
                    /\ tables[i + 1].exactRoutes = tables[i].exactRoutes
                    /\ tables[i + 1].trees = tables[i].trees

\* after Use, a route was registered and then the 404 handler replaced
C25_Witness ==
    /\ Len(tables) >= 4
    /\ RouteWrite25(Len(tables) - 2)
    /\ RouteWrite25(Len(tables) - 1)
    /\ tables[cur].middlewares # <<>>
    /\ tables[cur].notFoundRoute # tables[Len(tables) - 1].notFoundRoute
    /\ Cardinality(DOMAIN tables[Len(tables) - 1].chains) >= 2
    /\ \E r \in DOMAIN tables[cur].chains :
          /\ r # tables[cur].notFoundRoute
          /\ tables[cur].chains[r] = tables[Len(tables) - 1].chains[r]
          /\ Len(tables[cur].chains[r]) >= 2

RECURSIVE Reach(_, _)
\* the nodes of the tree below node n of heap h, n included
Reach(h, n) ==
    {n} \cup UNION {Reach(h, h[n].children[i]) : i \in 1..Len(h[n].children)}
        \cup (IF h[n].paramChild = Nil THEN {} ELSE Reach(h, h[n].paramChild))

\* the insertion path: the nodes from the root down to the node that holds route
InsertionPath(h, root, route) ==
    {x \in Reach(h, root) : \E y \in Reach(h, x) : h[y].route = route}

\* node c of heap h is what a split left of old node m below its new parent p:
\* m with the common prefix cut off, its route and children kept
SplitRest(h, c, m, p) ==
    /\ h[m].prefix = h[p].prefix \o h[c].prefix
    /\ h[c].prefix # <<>>
    /\ h[c].label = h[c].prefix[1]
    /\ h[c] = [h[m] EXCEPT !.prefix = h[c].prefix, !.label = h[c].label]

\* the step is an insertWithCopy: the tree has a new root
CopyStep26 == treeRoot' # treeRoot

\* no node of the heap before the step is written by it
OldNodesKept26 == \A i \in 1..Len(nodes) : nodes'[i] = nodes[i]

\* the nodes of the returned tree that are not on the insertion path
OffPath26 ==
    Reach(nodes', treeRoot') \ InsertionPath(nodes', treeRoot', Len(inserted'))

StaticKids(n) == {nodes[n].children[i] : i \in 1..Len(nodes[n].children)}

\* C27: every node of the tree has at most one parameter child, which is a
\* parameter node; its other children are static nodes with non-empty prefixes
\* that begin with pairwise distinct bytes, each one's label being the first
\* byte of its prefix
C27_TreeShape ==
    \A n \in Reach(nodes, treeRoot) :
        /\ nodes[n].paramChild # Nil => nodes[nodes[n].paramChild].nType = NodeParam
        /\ \A i \in 1..Len(nodes[n].children) :
              /\ nodes[nodes[n].children[i]].nType = NodeStatic
              /\ nodes[nodes[n].children[i]].prefix # <<>>
              /\ nodes[nodes[n].children[i]].label = nodes[nodes[n].children[i]].prefix[1]
        /\ \A i, j \in 1..Len(nodes[n].children) :
              i # j => nodes[nodes[n].children[i]].prefix[1]
                          # nodes[nodes[n].children[j]].prefix[1]

\* a tree in which one node has two static children and one has a parameter child
C27_Witness ==
    /\ \E n \in Reach(nodes, treeRoot) : Len(nodes[n].children) >= 2
    /\ \E n \in Reach(nodes, treeRoot) : nodes[n].paramChild # Nil
    /\ Len(inserted) = MaxInserts

\* what the reset of a map is said to leave: nil of nil, the cleared map of a
\* map of at most SmallMap entries, nil of a larger one
ResetBySize28(old, new) ==
    IF old.nil THEN new.nil
    ELSE IF Cardinality(DOMAIN old.m) <= SmallMap THEN ~new.nil /\ new.m = EmptyMap
    ELSE new.nil

\* C28: Release resets PathParams and values by their size (nil stays nil, a
\* map of at most 8 entries is cleared and kept, a larger map is dropped and the
\* field is nil) and clears Writer, Request and the query cache
C28_ResetBySize ==
    [][\A s \in Servers :
          srv[s].pc = "handled" /\ srv'[s].pc = "idle" =>
              /\ ctxs'[srv[s].ctx].Writer = 0
              /\ ctxs'[srv[s].ctx].Request = 0
              /\ ctxs'[srv[s].ctx].queryCache.nil
              /\ ResetBySize28(ctxs[srv[s].ctx].PathParams, ctxs'[srv[s].ctx].PathParams)
              /\ ResetBySize28(ctxs[srv[s].ctx].values, ctxs'[srv[s].ctx].values)
      ]_vars

\* C29: a handler reached through the static map runs with PathParams nil,
\* whatever its Context served before
C29_StaticHitNilParams ==
    \A s \in Servers :
        srv[s].pc \in {"waiting", "handled"} /\ ~srv[s].param
            => ctxs[srv[s].ctx].PathParams.nil

\* every bucket object holds at most capacity tokens and, when capacity is at
\* least 1, no negative count
TokensInBounds30 ==
    \A i \in 1..Len(buckets.heap) :
        /\ buckets.heap[i].tokens <= limiter.capacity
        /\ limiter.capacity >= 1 => buckets.heap[i].tokens >= 0

Expected31 ==
    Min(buckets[HotKey].tokens
           + RefillExact(clock - buckets[HotKey].lastSeen, limiter.rate),
        limiter.capacity)

\* C31: a call on an existing bucket with t tokens, d nanoseconds after
\* lastSeen, is admitted exactly when n = min(t + floor(d * rate / 10^9),
\* capacity) is at least 1, and then stores tokens = n - 1
C31_RefillFloor ==
    [][(HotKey \in DOMAIN buckets /\ alog' # alog) =>
          (/\ alog'[Len(alog')].ok = (Expected31 >= 1)
           /\ (Expected31 >= 1 => buckets'[HotKey].tokens = Expected31 - 1))]_vars

\* the keys whose bucket the step deletes from the map
Deleted32 == DOMAIN buckets.map \ DOMAIN buckets'.map

\* the allow calls in flight that got key k's bucket from LoadOrStore
Touching32(k) ==
    {g \in Goroutines : /\ apc[g].pc \notin {"idle", "loadOrStore"}
                        /\ apc[g].key = k
                        /\ buckets.ptr[g] = buckets.map[k]}

\* C32: a reaper sweep deletes a key's bucket only if no allow call touched
\* the key within the last cleanup interval: neither has a call written a
\* lastSeen that recent to the bucket, nor is a call that read the clock that
\* recently at work on it; and an allow after the deletion, finding no bucket
\* under the key, puts a new one into the map
C32_SweepOnlyUntouched ==
    [][/\ \A k \in Deleted32 :
             /\ buckets.heap[buckets.map[k]].lastSeen < clock - CleanupInterval
             /\ \A g \in Touching32(k) : apc[g].now < clock - CleanupInterval
       /\ \A g \in Goroutines :
             (apc[g].pc = "loadOrStore" /\ apc'[g] # apc[g])
                => HotKey \in DOMAIN buckets'.map]_vars

\* the answer of the tree t.insert(p, route) leaves behind to a search of q
AfterInsert33(p, q) ==
    treeSearch(treeInsert(nodes, treeRoot, p, Len(inserted) + 1), treeRoot, q)

\* C33: whenever a pattern is inserted, in place or by insertWithCopy, the
\* resulting tree answers every search, route and params, as the tree does
\* after the in-place insert of the same pattern and route
C33_CopyInsertIsInsert ==
    [][inserted' # inserted =>
          \A q \in TreePaths :
              treeSearch(nodes', treeRoot', q) = AfterInsert33(inserted'[Len(inserted')], q)
      ]_vars

\* a tree whose root is the copy the last insertWithCopy returned, made after
\* other inserts, in which a search finds the route inserted last and
\* captures a parameter
C33_Witness ==
    /\ Len(inserted) >= 2
    /\ treeRoot = Len(nodes)
    /\ \E q \in TreePaths :
          /\ treeSearch(nodes, treeRoot, q).route = Len(inserted)
          /\ ~treeSearch(nodes, treeRoot, q).params.isNil

\* the route table i dispatches method m and path p to
RouteIn34(i, m, p) == Resolve(tables[i], emaps, nodes, m, p)

\* C34: registering one more route never turns a routable request into a
\* 404: what a table dispatches to a registered route, the next table
\* dispatches to the same route or to the one just added
C34_NoRouteLost ==
    \A i \in 1..(Len(tables) - 1) : \A m \in ReqMethods : \A p \in ReqPaths \cup HidePaths :
        RouteIn34(i, m, p).kind # "notfound" =>
            /\ RouteIn34(i + 1, m, p).kind # "notfound"
            /\ \/ RouteIn34(i + 1, m, p).route = RouteIn34(i, m, p).route
               \/ RouteIn34(i + 1, m, p).route \notin DOMAIN tables[i].chains

\* the step is a Router.Use, which rebuilds every chain
UseStep35 == used' # used

\* C35: the middleware list of a route registered through the group is fixed
\* at registration: no step changes it, and the chain a later Router.Use
\* builds for the route holds the globals, then the group and route middleware
\* the route was registered with, then its handler
C35_GroupListFixed ==
    [][\A r \in DOMAIN grp.regs :
          /\ routes'[r].middlewares = routes[r].middlewares
          /\ UseStep35 =>
                ChainOf(tables'[cur'], r) = used' \o grp.regs[r].want \o <<routes[r].handler>>
      ]_vars

\* C36: the chains map holds no stale entries: in every published table its
\* keys are exactly the Routes in a static map or reachable in a tree and the
\* table's 404 route
C36_NoStaleChains ==
    \A i \in 1..Len(tables) :
        DOMAIN tables[i].chains = TableRoutes(tables[i]) \cup {tables[i].notFoundRoute}

\* 1/rate seconds in nanoseconds, rounded up: the least d with d * rate >= 10^9
Period37 == (Second + limiter.rate - 1) \div limiter.rate

\* call i emptied the bucket and every call after it and before call j was
\* denied
EmptySince37(i, j) ==
    /\ alog[i].ok
    /\ alog[i].tokens = 0
    /\ \A k \in (i + 1)..(j - 1) : ~alog[k].ok

\* C37: denied attempts do not postpone the refill: once a call has emptied
\* the bucket, a call made at least 1/rate seconds after it is admitted,
\* however many denied calls were made in between
C37_DenialsKeepRefill ==
    \A i \in 1..Len(alog) : \A j \in (i + 1)..Len(alog) :
        (EmptySince37(i, j) /\ alog[j].now - alog[i].now >= Period37)
            => alog[j].ok

\* the same without a denied call in between
C37_NoDenialInBetween ==
    \A i \in 1..(Len(alog) - 1) :
        (EmptySince37(i, i + 1) /\ alog[i + 1].now - alog[i].now >= Period37)
            => alog[i + 1].ok

\* the goroutines that made bucket b by LoadOrStore and have not yet stored
\* both its tokens and its lastSeen
Creators38(b) ==
    {g \in Goroutines : /\ buckets.ptr[g] = b
                        /\ apc[g].pc \in {"storeTokens", "storeLastSeen"}}

\* the buckets whose tokens or lastSeen the step reads: the one of an allow
\* call at a Load, those in the map when the reaper's Range visits them
ReadBy38 ==
    {buckets.ptr[g] : g \in {h \in Goroutines :
                               /\ apc[h].pc \in {"loadTokens", "loadLastSeen"}
                               /\ apc'[h] # apc[h]}}
    \cup (IF buckets.stale = {} /\ buckets'.stale # {}
          THEN {buckets.map[k] : k \in DOMAIN buckets.map} ELSE {})

\* C38: of the allow calls racing on a key without a bucket exactly one makes
\* the bucket, and no other call and no sweep reads the bucket's tokens or
\* lastSeen before the maker has stored capacity - 1 and now in them
C38_NoReadBeforeInit ==
    [][/\ \A b \in 1..Len(buckets.heap) : Cardinality(Creators38(b)) <= 1
       /\ \A b \in ReadBy38 : Creators38(b) = {}]_vars

\* C39: every allow call returns: with the calls of the other goroutines and
\* the reaper at work on the same key, a call that has been entered leaves
\* its compare-and-swap loop after finitely many retries and returns
C39_AllowReturns ==
    \A g \in Goroutines : (apc[g].pc # "idle") ~> (apc[g].pc = "idle")

\* a call is back at the top of the loop after a failed compare-and-swap,
\* with the lastSeen of its earlier pass still in its local
C39_Witness ==
    \E g \in Goroutines : apc[g].pc = "loadTokens" /\ apc[g].lastSeen # 0

\* routes r and q were registered under the same method and pattern
SameKey40(r, q) ==
    routes[r].method = routes[q].method /\ routes[r].pattern = routes[q].pattern

\* the routes registered last under a (method, pattern) registered before
LastOfSeveral40 ==
    {r \in Registered : /\ \E q \in Registered : q < r /\ SameKey40(r, q)
                        /\ \A q \in Registered : q > r => ~SameKey40(r, q)}

DistinctInserted(n) == \A i, j \in 1..n : i # j => inserted[i] # inserted[j]

\* C3: after a successful search the captured names are exactly the names of the
\* ':'-segments of the matched route's own pattern, and each captured value is the
\* request segment at that position
C3_ParamsMatchPattern ==
    (found.done /\ found.route # Nil)
        => ParamPairs(found.params) = PatternParams(inserted[found.route], found.path)

\* C10: with pairwise distinct patterns inserted, searching for an earlier pattern's
\* own path returns the Route that was inserted with it
C10_InsertPreservesBindings ==
    (found.done /\ DistinctInserted(found.n))
        => \A i \in 1..found.n : found.path = inserted[i] => found.route = i

====
